---------------------------- MODULE Spec2Model ----------------------------
(***************************************************************************)
(* rapel: chunked HTTP downloader with resume support.                     *)
(*                                                                         *)
(* The module models internal/downloader (state.go, chunk.go,              *)
(* downloader.go), the range fetcher of internal/http/client.go, the       *)
(* error handling of cmd/download.go and internal/merger (merger.go).      *)
(*                                                                         *)
(* Specifications:                                                         *)
(*   Spec      - Download / downloadAllChunks: dispatcher, download        *)
(*               workers, hook workers, interrupts and repeated runs       *)
(*   SpecPlan  - NewState applied to bounded (totalSize, chunkSize) inputs *)
(*   SpecApi   - the methods of State called one after another             *)
(*   SpecState - the methods of State called concurrently, under s.mu      *)
(*   SpecInput - Download on sizes of any sign, up to the first request    *)
(*   SpecRange - one call of Client.DownloadRange, one read per step       *)
(*   SpecGroup - groupFilesByBasename applied to bounded lists of names    *)
(*   SpecMerge - Merger.Merge on a directory of chunk files, one file      *)
(*               operation per step                                        *)
(*   SpecBackoff - the attempt loop of downloadChunk when every attempt    *)
(*               fails, for large retry counts                             *)
(*   SpecResume - the chunk files and their bytes over successive runs     *)
(*               with any chunk size, with and without --force             *)
(***************************************************************************)
EXTENDS Integers, Sequences, FiniteSets, TLC

VARIABLES
    cfg,            \* downloader.Config of the run (Downloader.config)
    state,          \* Downloader.state: Nil or a State value
    pc,             \* position of the main goroutine (DownloadCommand / Download)
    stateFile,      \* content of .<prefix>-state.json: Nil (no file) or a State value
    tmp,            \* size of <prefix>.<idx>.tmp per chunk index, Absent when no file
    part,           \* size of <prefix>.<idx>.part per chunk index, Absent when no file
    wk,             \* the download worker goroutines of downloadAllChunks
    disp,           \* the dispatcher goroutine: loop index, whether workChan is closed,
                    \* and (history) the indexes sent on workChan in this run
    errChan,        \* errChan (capacity 1)
    ctxDone,        \* the context of downloadAllChunks is cancelled
    sigInt,         \* the context of DownloadCommand was cancelled by a signal
    postPartCh,     \* Downloader.postPartCh (capacity len(Chunks))
    postPartClosed, \* postPartCh has been closed
    hk,             \* the post-part worker goroutines
    retAll,         \* what downloadAllChunks returned
    retDownload,    \* what Download returned
    retCmd,         \* what DownloadCommand returned
    failed,         \* chunk indexes whose downloadChunk gave up after the last retry (this run)
    saveErr,        \* history: a Save of this run returned an error
    hookRuns,       \* history: executions of the post-part command per chunk index (this run)
    pending,        \* history: the chunks complete without post-part when the run started
    runs,           \* number of process runs started so far
    mu,             \* State.mu: the goroutine holding it, NoHolder when free (SpecState)
    th,             \* goroutines calling the methods of State (SpecState)
    stateTmp,       \* content of .<prefix>-state.json.tmp, Nil when no file (SpecState)
    lastCall,       \* the last call made by the sequential harness (SpecApi); history of
                    \* the chunk sizes and response statuses of the runs (SpecResume);
                    \* the chunks whose post-part command succeeded earlier (SpecLive)
    rangeCall,      \* the call of Client.DownloadRange in progress (SpecRange)
    dir,            \* the files of the working directory with their bytes, by name
                    \* (SpecMerge, SpecResume)
    mg              \* the Merger: its Config, position and result (SpecGroup, SpecMerge)

procVars == <<wk, disp, errChan, ctxDone, sigInt, postPartCh, postPartClosed, hk>>
retVars == <<retAll, retDownload, retCmd>>
diskVars == <<stateFile, tmp, part>>
apiVars == <<mu, th, stateTmp, lastCall, rangeCall, dir, mg>>
histVars == <<failed, saveErr, hookRuns, pending>>
vars == <<cfg, state, pc, diskVars, procVars, retVars, histVars, runs, apiVars>>

\* a nil pointer / nil error / missing file (a record, so that it compares with records)
Nil == [nil |-> TRUE]

\* the single URL / filename prefix of the runs modelled
URL == "http://example.com/file"
Prefix == "file"

(***************************************************************************)
(* Bounds of the chunk plan harness (SpecPlan).                            *)
(***************************************************************************)
MaxPlanTotal == 12
MaxPlanChunk == 6

\* the sizes of TestNewState are part of the inputs
PlanTotalSizes == (1..MaxPlanTotal) \cup {1000, 2500, 3000}
PlanChunkSizes == (1..MaxPlanChunk) \cup {1000}

(***************************************************************************)
(* Go integer division truncates toward zero.                              *)
(***************************************************************************)
GoDiv(a, b) ==
    IF (a >= 0) = (b > 0)
    THEN (IF a >= 0 THEN a ELSE 0 - a) \div (IF b > 0 THEN b ELSE 0 - b)
    ELSE 0 - ((IF a >= 0 THEN a ELSE 0 - a) \div (IF b > 0 THEN b ELSE 0 - b))

(***************************************************************************)
(* state.go: NewState                                                      *)
(***************************************************************************)
NumChunksFloor(totalSize, chunkSize) == GoDiv(totalSize, chunkSize)

\* numChunks := (totalSize + chunkSize - 1) / chunkSize
NumChunks(totalSize, chunkSize) == GoDiv(totalSize + chunkSize - 1, chunkSize)

\* start := i * chunkSize
ChunkStart(i, chunkSize) == i * chunkSize

\* end := start + chunkSize - 1; if end >= totalSize { end = totalSize - 1 }
ChunkEnd(i, totalSize, chunkSize) ==
    LET end == ChunkStart(i, chunkSize) + chunkSize - 1
    IN  IF end >= totalSize THEN totalSize - 1 ELSE end

\* &ChunkInfo{Index, Start, End, Downloaded: 0, Completed: false}
NewChunkInfo(i, totalSize, chunkSize) ==
    [ index             |-> i,
      start             |-> ChunkStart(i, chunkSize),
      end               |-> ChunkEnd(i, totalSize, chunkSize),
      downloaded        |-> 0,
      completed         |-> FALSE,
      postPartCompleted |-> FALSE ]

\* Chunks is indexed from 0 as in the source
NewState(url, totalSize, chunkSize, prefix) ==
    [ url            |-> url,
      totalSize      |-> totalSize,
      chunkSize      |-> chunkSize,
      filenamePrefix |-> prefix,
      chunks         |-> [ i \in 0..(NumChunks(totalSize, chunkSize) - 1) |->
                             NewChunkInfo(i, totalSize, chunkSize) ],
      completedCount |-> 0 ]

\* len(s.Chunks)
Len0(chunks) == Cardinality(DOMAIN chunks)

(***************************************************************************)
(* state.go: the mutators of State.  Each runs under State.mu, so it is    *)
(* one atomic step of its caller.                                          *)
(***************************************************************************)
\* if index < 0 || index >= len(s.Chunks) { return }
InRange(s, index) == index >= 0 /\ index < Len0(s.chunks)

MarkChunkCompletedTwice(s, index, downloaded) ==
    IF ~InRange(s, index) THEN s
    ELSE [s EXCEPT !.chunks[index].completed = TRUE,
                   !.chunks[index].downloaded = downloaded,
                   !.completedCount = @ + 1]

MarkChunkCompleted(s, index, downloaded) ==
    IF ~InRange(s, index) THEN s
    ELSE IF ~s.chunks[index].completed
         THEN [s EXCEPT !.chunks[index].completed = TRUE,
                        !.chunks[index].downloaded = downloaded,
                        !.completedCount = @ + 1]
         ELSE s

MarkPostPartCompletedReverts(s, index, success) ==
    IF ~InRange(s, index) THEN s
    ELSE [s EXCEPT !.chunks[index].postPartCompleted = success,
                   !.chunks[index].completed = (@ /\ success)]

MarkPostPartCompleted(s, index, success) ==
    IF ~InRange(s, index) THEN s
    ELSE [s EXCEPT !.chunks[index].postPartCompleted = success]

UpdateChunkProgress(s, index, downloaded) ==
    IF ~InRange(s, index) THEN s
    ELSE [s EXCEPT !.chunks[index].downloaded = downloaded]

(***************************************************************************)
(* Bounds of the scheduler model (Spec).                                   *)
(***************************************************************************)
TotalSize == 5        \* --size of the runs
ChunkSize == 2        \* -c of the runs
MaxConcurrency == 2   \* largest --jobs
MaxRetries == 1       \* -r of the runs
MaxPostPartJobs == 1  \* --post-part-jobs of the runs
MaxRuns == 2          \* process runs on the same directory

Absent == 0 - 1

\* the chunk indexes of the plan, which name the artifacts on disk
ChunkIdx == DOMAIN NewState(URL, TotalSize, ChunkSize, Prefix).chunks

Workers == 1..MaxConcurrency
HookWorkers == 1..MaxPostPartJobs

(***************************************************************************)
(* Errors.  An error is a record; fmt.Errorf("...: %w") keeps the cause    *)
(* and changes the value, so a wrapped error is never == its cause.        *)
(***************************************************************************)
ContextCanceled == [op |-> "ctx", index |-> Absent, cause |-> "context canceled"]
TransferError == [op |-> "http", index |-> Absent, cause |-> "transfer failed"]

\* fmt.Errorf("download failed after %d retries: %w", maxRetries, lastErr)
RetriesExhausted(lastErr) == [op |-> "retries", index |-> Absent, cause |-> lastErr.cause]

\* fmt.Errorf("chunk %d: %w", work.index, err)
ChunkError(index, err) == [op |-> "chunk:" \o err.op, index |-> index, cause |-> err.cause]

\* fmt.Errorf("failed to save state: %w", err)
SaveError == [op |-> "save", index |-> Absent, cause |-> "write failed"]

\* fmt.Errorf("existing state doesn't match URL/size, use --force to restart")
MismatchError == [op |-> "mismatch", index |-> Absent, cause |-> "state mismatch"]

\* fmt.Errorf("failed to delete state file: %w", err)
DeleteError == [op |-> "delete", index |-> Absent, cause |-> "no such file"]

(***************************************************************************)
(* chunk.go: OpenChunkFile.  The result is "chunk already complete" when   *)
(* the .part file exists, else the current size of the .tmp file (0 when   *)
(* it is created).                                                         *)
(***************************************************************************)
OpenChunkFileAllComplete(tmpSize, partSize) == [complete |-> TRUE, currentSize |-> 0]

OpenChunkFileNoPartCheck(tmpSize, partSize) ==
    [complete |-> FALSE, currentSize |-> IF tmpSize # Absent THEN tmpSize ELSE 0]

OpenChunkFile(tmpSize, partSize) ==
    IF partSize # Absent
    THEN [complete |-> TRUE, currentSize |-> 0]
    ELSE [complete |-> FALSE, currentSize |-> IF tmpSize # Absent THEN tmpSize ELSE 0]

(***************************************************************************)
(* downloader.go: downloadChunk, resume position.                          *)
(***************************************************************************)
ResumeStartFromZero(chunk, currentSize) == chunk.start

\* resumeStart := chunk.Start + currentSize
\* if resumeStart > chunk.End { resumeStart = chunk.End + 1 }
ResumeStart(chunk, currentSize) ==
    IF chunk.start + currentSize > chunk.end
    THEN chunk.end + 1
    ELSE chunk.start + currentSize

(***************************************************************************)
(* Values of the goroutines before Download starts them.                   *)
(***************************************************************************)
NoWork == [index |-> Absent, needsDownload |-> FALSE, needsPostPart |-> FALSE]

\* req is the range of the last DownloadRange call of the current downloadChunk
\* skipped: OpenChunkFile answered "chunk already complete"
\* wait: the seconds of backoff that preceded the current attempt
WorkerAt(p) == [pc |-> p, work |-> NoWork, attempt |-> 0, wait |-> 0, req |-> <<>>, err |-> Nil,
                skipped |-> FALSE]

NoProcess ==
    /\ stateFile = Nil
    /\ tmp = [i \in ChunkIdx |-> Absent]
    /\ part = [i \in ChunkIdx |-> Absent]
    /\ wk = [w \in Workers |-> WorkerAt("none")]
    /\ disp = [i |-> 0, closed |-> FALSE, sent |-> <<>>]
    /\ errChan = <<>>
    /\ ctxDone = FALSE
    /\ sigInt = FALSE
    /\ postPartCh = <<>>
    /\ postPartClosed = FALSE
    /\ hk = [h \in HookWorkers |-> [pc |-> "none", index |-> Absent, cmdErr |-> FALSE]]
    /\ retAll = Nil
    /\ retDownload = Nil
    /\ retCmd = Nil
    /\ failed = {}
    /\ saveErr = FALSE
    /\ hookRuns = [i \in ChunkIdx |-> 0]
    /\ pending = {}
    /\ runs = 0

NoHolder == 0

NoApi ==
    /\ mu = NoHolder
    /\ th = <<>>
    /\ stateTmp = Nil
    /\ lastCall = Nil
    /\ rangeCall = Nil
    /\ dir = Nil
    /\ mg = Nil

(***************************************************************************)
(* cmd/download.go + downloader.go: start of a run.                        *)
(* Download: LoadState unless Force, NewState when there is none, check of *)
(* URL and size; then downloadAllChunks launches the post-part workers,    *)
(* the download workers and the dispatcher.  The total size is given       *)
(* (--size), so no HEAD request is made.                                   *)
(***************************************************************************)
Init ==
    /\ cfg \in [ url : {URL}, totalSize : {TotalSize}, chunkSize : {ChunkSize},
                 maxConcurrency : 1..MaxConcurrency, maxRetries : {MaxRetries},
                 force : {FALSE}, postPartCmd : BOOLEAN,
                 postPartConcurrency : {MaxPostPartJobs} ]
    /\ state = Nil
    /\ pc = "start"
    /\ stateFile = Nil
    /\ tmp = [i \in ChunkIdx |-> Absent]
    /\ part = [i \in ChunkIdx |-> Absent]
    /\ wk = [w \in Workers |-> WorkerAt("none")]
    /\ disp = [i |-> 0, closed |-> FALSE, sent |-> <<>>]
    /\ errChan = <<>>
    /\ ctxDone = FALSE
    /\ sigInt = FALSE
    /\ postPartCh = <<>>
    /\ postPartClosed = FALSE
    /\ hk = [h \in HookWorkers |-> [pc |-> "none", index |-> Absent, cmdErr |-> FALSE]]
    /\ retAll = Nil
    /\ retDownload = Nil
    /\ retCmd = Nil
    /\ failed = {}
    /\ saveErr = FALSE
    /\ hookRuns = [i \in ChunkIdx |-> 0]
    /\ pending = {}
    /\ runs = 1
    /\ NoApi

\* LoadState: nil when the file does not exist
LoadState == stateFile

\* c.PostPartCmd != ""
HasPostPartCmd == cfg.postPartCmd

LaunchedAll(w) == TRUE

\* for i := 0; i < d.config.MaxConcurrency; i++ { wg.Add(1); go func() {...}() }
Launched(w) == w <= cfg.maxConcurrency

MismatchNever(s) == FALSE

\* if d.state.URL != d.config.URL || d.state.TotalSize != totalSize
Mismatch(s) == s.url # cfg.url \/ s.totalSize # cfg.totalSize

DownloadStart ==
    /\ pc = "start"
    /\ LET loaded   == IF ~cfg.force THEN LoadState ELSE Nil
           fresh    == NewState(cfg.url, cfg.totalSize, cfg.chunkSize, Prefix)
           s1       == IF loaded = Nil THEN fresh ELSE loaded
           mismatch == Mismatch(s1)
       IN  IF mismatch /\ ~cfg.force
           THEN /\ state' = s1
                /\ retDownload' = MismatchError
                /\ retCmd' = MismatchError
                /\ pc' = "exited"
                /\ UNCHANGED <<wk, hk, disp, ctxDone, retAll>>
           ELSE /\ state' = IF mismatch THEN fresh ELSE s1
                /\ pc' = "run"
                /\ wk' = [w \in Workers |->
                            IF Launched(w) THEN WorkerAt("idle")
                            ELSE WorkerAt("none")]
                /\ hk' = [h \in HookWorkers |->
                            [pc |-> IF HasPostPartCmd /\ h <= cfg.postPartConcurrency
                                    THEN "idle" ELSE "none",
                             index |-> Absent, cmdErr |-> FALSE]]
                /\ disp' = [i |-> 0, closed |-> FALSE, sent |-> <<>>]
                /\ ctxDone' = sigInt
                /\ UNCHANGED retVars
    /\ pending' = IF pc' = "run"
                  THEN {i \in ChunkIdx : /\ InRange(state', i)
                                         /\ state'.chunks[i].completed
                                         /\ ~state'.chunks[i].postPartCompleted}
                  ELSE {}
    /\ UNCHANGED <<apiVars, cfg, diskVars, errChan, sigInt, postPartCh, postPartClosed, failed,
                   saveErr, hookRuns, runs>>

(***************************************************************************)
(* downloader.go: the dispatcher goroutine of downloadAllChunks.           *)
(***************************************************************************)
NeedsDownloadAlways(chunk) == TRUE

\* needsDownload := !chunk.Completed
NeedsDownload(chunk) == ~chunk.completed

NeedsPostPartAlways(chunk) == chunk.completed /\ HasPostPartCmd

NeedsPostPart(chunk) == chunk.completed /\ HasPostPartCmd /\ ~chunk.postPartCompleted

AdvanceNever(i) == i

\* for i, chunk := range d.state.Chunks: the next iteration
Advance(i) == i + 1

DispAtChunk == pc \in {"run", "joined", "returned"} /\ ~disp.closed /\ disp.i < Len0(state.chunks)

SkipsNever(chunk) == FALSE

\* if !needsDownload && !needsPostPart { continue }
Skips(chunk) == ~NeedsDownload(chunk) /\ ~NeedsPostPart(chunk)

\* the iteration of a skipped chunk
DispatchSkip ==
    /\ DispAtChunk
    /\ Skips(state.chunks[disp.i])
    /\ disp' = [disp EXCEPT !.i = Advance(@)]
    /\ UNCHANGED <<apiVars, cfg, state, pc, diskVars, wk, errChan, ctxDone, sigInt, postPartCh,
                   postPartClosed, hk, retVars, histVars, runs>>

\* case workChan <- workItem{...}: taken together with a worker's receive
\* (workChan is unbuffered); the worker then enters downloadChunk or goes on
\* to the post-part hand-off
Dispatch(w) ==
    /\ DispAtChunk
    /\ wk[w].pc = "idle"
    /\ LET chunk == state.chunks[disp.i]
           item  == [index |-> disp.i,
                     needsDownload |-> NeedsDownload(chunk),
                     needsPostPart |-> NeedsPostPart(chunk)]
       IN  /\ ~Skips(chunk)
           /\ wk' = [wk EXCEPT ![w] =
                       [pc |-> IF item.needsDownload THEN "attempt"
                               ELSE IF HasPostPartCmd THEN "hooksend" ELSE "idle",
                        work |-> IF item.needsDownload \/ HasPostPartCmd THEN item ELSE NoWork,
                        attempt |-> 0, wait |-> 0, req |-> <<>>, err |-> Nil,
                        skipped |-> FALSE]]
    /\ disp' = [disp EXCEPT !.i = Advance(@), !.sent = Append(@, disp.i)]
    /\ UNCHANGED <<apiVars, cfg, state, pc, diskVars, errChan, ctxDone, sigInt, postPartCh,
                   postPartClosed, hk, retVars, histVars, runs>>

\* case <-ctx.Done(): return  (and the deferred close(workChan))
DispatchCancelled ==
    /\ DispAtChunk
    /\ ~Skips(state.chunks[disp.i])
    /\ ctxDone
    /\ disp' = [disp EXCEPT !.closed = TRUE]
    /\ UNCHANGED <<apiVars, cfg, state, pc, diskVars, wk, errChan, ctxDone, sigInt, postPartCh,
                   postPartClosed, hk, retVars, histVars, runs>>

\* the loop over d.state.Chunks ends: deferred close(workChan)
DispatchDone ==
    /\ pc \in {"run", "joined", "returned"}
    /\ ~disp.closed
    /\ disp.i = Len0(state.chunks)
    /\ disp' = [disp EXCEPT !.closed = TRUE]
    /\ UNCHANGED <<apiVars, cfg, state, pc, diskVars, wk, errChan, ctxDone, sigInt, postPartCh,
                   postPartClosed, hk, retVars, histVars, runs>>

(***************************************************************************)
(* downloader.go: a download worker goroutine and downloadChunk.           *)
(* Worker positions: "idle" (receiving from workChan), "attempt" (top of   *)
(* the first attempt), "backoff" (waiting before a retry), "fetching"      *)
(* (DownloadRange in flight), "mark" (downloadChunk returned nil), "save", *)
(* "hooksend", "report" (about to offer an error to errChan), "exited".    *)
(***************************************************************************)
Running == pc \in {"run", "joined"}

ChunkOf(w) == state.chunks[wk[w].work.index]

\* One pass of the attempt loop up to the call of DownloadRange:
\* OpenChunkFile, the resume position, the request.  A request on a
\* cancelled context fails before anything is sent, and downloadChunk then
\* returns ctx.Err().
StartAttempt(w) ==
    /\ Running
    /\ wk[w].pc \in {"attempt", "backoff"}
    /\ LET i     == wk[w].work.index
           chunk == ChunkOf(w)
           open  == OpenChunkFile(tmp[i], part[i])
           from  == ResumeStart(chunk, open.currentSize)
       IN  IF open.complete
           THEN \* err.Error() == "chunk already complete": return nil
                /\ wk' = [wk EXCEPT ![w].pc = "mark", ![w].req = <<>>,
                                    ![w].skipped = TRUE]
                /\ UNCHANGED <<tmp, part>>
           ELSE IF from <= chunk.end
           THEN /\ tmp' = [tmp EXCEPT ![i] = open.currentSize]
                /\ IF ctxDone
                   THEN wk' = [wk EXCEPT ![w].pc = "report", ![w].attempt = 0, ![w].wait = 0,
                                         ![w].err = ContextCanceled]
                   ELSE wk' = [wk EXCEPT ![w].pc = "fetching",
                                         ![w].req = <<from, chunk.end>>]
                /\ UNCHANGED part
           ELSE \* nothing left to fetch: chunkFile.Finalize()
                /\ part' = [part EXCEPT ![i] = open.currentSize]
                /\ tmp' = [tmp EXCEPT ![i] = Absent]
                /\ wk' = [wk EXCEPT ![w].pc = "mark", ![w].req = <<>>]
    /\ UNCHANGED <<apiVars, cfg, state, pc, stateFile, disp, errChan, ctxDone, sigInt, postPartCh,
                   postPartClosed, hk, retVars, histVars, runs>>

\* select { case <-ctx.Done(): return ctx.Err() ... } in the backoff
BackoffCancelled(w) ==
    /\ Running
    /\ wk[w].pc = "backoff"
    /\ ctxDone
    /\ wk' = [wk EXCEPT ![w].pc = "report", ![w].err = ContextCanceled,
                         ![w].attempt = 0, ![w].wait = 0]
    /\ UNCHANGED <<apiVars, cfg, state, pc, diskVars, disp, errChan, ctxDone, sigInt, postPartCh,
                   postPartClosed, hk, retVars, histVars, runs>>

\* client.go: downloadRangeOnce wrote all end-start+1 bytes and returned nil;
\* downloadChunk then finalizes (rename .tmp to .part) and returns nil
FetchSucceeded(w) ==
    /\ Running
    /\ wk[w].pc = "fetching"
    /\ LET i        == wk[w].work.index
           expected == wk[w].req[2] - wk[w].req[1] + 1
       IN  /\ part' = [part EXCEPT ![i] = tmp[i] + expected]
           /\ tmp' = [tmp EXCEPT ![i] = Absent]
    /\ wk' = [wk EXCEPT ![w].pc = "mark"]
    /\ UNCHANGED <<apiVars, cfg, state, pc, stateFile, disp, errChan, ctxDone, sigInt, postPartCh,
                   postPartClosed, hk, retVars, histVars, runs>>

\* fmt.Errorf("failed to finalize chunk: %w", err)
FinalizeError == [op |-> "finalize", index |-> Absent, cause |-> "rename failed"]

\* chunk.go: Finalize returns an error (Close or os.Rename failed): the
\* .tmp file stays, with every byte of the chunk when the transfer had just
\* ended, and downloadChunk returns the error without another attempt
FinalizeFailed(w) ==
    /\ Running
    /\ LET i     == wk[w].work.index
           chunk == ChunkOf(w)
           open  == OpenChunkFile(tmp[i], part[i])
       IN  IF wk[w].pc = "fetching"
           THEN tmp' = [tmp EXCEPT ![i] = @ + (wk[w].req[2] - wk[w].req[1] + 1)]
           ELSE /\ wk[w].pc \in {"attempt", "backoff"}
                /\ ~open.complete
                /\ ResumeStart(chunk, open.currentSize) > chunk.end
                /\ UNCHANGED tmp
    /\ wk' = [wk EXCEPT ![w].pc = "report", ![w].err = FinalizeError, ![w].req = <<>>,
                         ![w].attempt = 0, ![w].wait = 0]
    /\ UNCHANGED <<apiVars, cfg, state, pc, stateFile, part, disp, errChan, ctxDone, sigInt,
                   postPartCh, postPartClosed, hk, retVars, histVars, runs>>

(***************************************************************************)
(* downloader.go: the backoff before a retry.  The float64 values that     *)
(* arise are powers of two, kept by their exponent, and +Inf, which the    *)
(* product becomes beyond the largest finite exponent.                     *)
(***************************************************************************)
FloatMaxExp == 1023

\* min(..., 60.0)
BackoffCap == 60

Inf == [inf |-> TRUE]

\* result *= 2.0
Doubled(result) ==
    IF result = Inf THEN Inf
    ELSE IF result.exp + 1 > FloatMaxExp THEN Inf
    ELSE [exp |-> result.exp + 1]

\* for i := 0; i < n; i++ { result *= 2.0 }
RECURSIVE pow2Loop(_, _, _)
pow2Loop(i, n, result) == IF i < n THEN pow2Loop(i + 1, n, Doubled(result)) ELSE result

\* result := 1.0; ...; return result
pow2(n) == pow2Loop(0, n, [exp |-> 0])

\* a < 60.0 for a power of two or +Inf
LessThanCap(a) == a # Inf /\ a.exp <= 30 /\ 2^a.exp < BackoffCap

BackoffSecsUncapped(attempt) == IF attempt <= 30 THEN 2^attempt ELSE 2^30

\* backoffSecs := min(pow2(attempt), 60.0), in whole seconds
BackoffSecs(attempt) ==
    LET a == pow2(attempt)
    IN  IF LessThanCap(a) THEN 2^a.exp ELSE BackoffCap

\* after a failed attempt: return ctx.Err() when the context is cancelled,
\* else continue; the loop ends when attempt > maxRetries
AfterFailureNoLimit(rec) ==
    IF ctxDone
    THEN [rec EXCEPT !.pc = "report", !.err = ContextCanceled, !.req = <<>>, !.attempt = 0, !.wait = 0]
    ELSE [rec EXCEPT !.pc = "backoff", !.attempt = @ + 1, !.wait = BackoffSecs(rec.attempt + 1), !.req = <<>>]

AfterFailureRetriesCancelled(rec) ==
    IF rec.attempt + 1 <= cfg.maxRetries
    THEN [rec EXCEPT !.pc = "backoff", !.attempt = @ + 1, !.wait = BackoffSecs(rec.attempt + 1), !.req = <<>>]
    ELSE [rec EXCEPT !.pc = "report", !.attempt = 0, !.wait = 0, !.req = <<>>,
                     !.err = RetriesExhausted(TransferError)]

AfterFailure(rec) ==
    IF ctxDone
    THEN [rec EXCEPT !.pc = "report", !.err = ContextCanceled, !.req = <<>>, !.attempt = 0, !.wait = 0]
    ELSE IF rec.attempt + 1 <= cfg.maxRetries
    THEN [rec EXCEPT !.pc = "backoff", !.attempt = @ + 1, !.wait = BackoffSecs(rec.attempt + 1), !.req = <<>>]
    ELSE [rec EXCEPT !.pc = "report", !.attempt = 0, !.wait = 0, !.req = <<>>,
                     !.err = RetriesExhausted(TransferError)]

\* client.go: downloadRangeOnce failed (request error, bad status, read or
\* write error, cancelled context or early end of the body) after writing n
\* bytes to the .tmp file; a Read may deliver the last bytes together with
\* an error, so n ranges up to the number of bytes requested
FetchFailed(w) ==
    /\ Running
    /\ wk[w].pc = "fetching"
    /\ LET i        == wk[w].work.index
           expected == wk[w].req[2] - wk[w].req[1] + 1
       IN  \E n \in 0..expected :
               tmp' = [tmp EXCEPT ![i] = @ + n]
    /\ wk' = [wk EXCEPT ![w] = AfterFailure(wk[w])]
    /\ failed' = IF wk'[w].err = RetriesExhausted(TransferError)
                 THEN failed \cup {wk[w].work.index} ELSE failed
    /\ UNCHANGED <<saveErr, hookRuns, pending>>
    /\ UNCHANGED <<apiVars, cfg, state, pc, stateFile, part, disp, errChan, ctxDone, sigInt,
                   postPartCh, postPartClosed, hk, retVars, runs>>

\* select { case errChan <- err: cancel()  default: }; return
\* (a failed Save is offered without cancel())
ReportCancels(err) == err.op # "save"

Report(w) ==
    /\ Running
    /\ wk[w].pc = "report"
    /\ LET err == IF wk[w].err.op = "save" THEN wk[w].err
                  ELSE ChunkError(wk[w].work.index, wk[w].err)
       IN  IF Len(errChan) < 1
           THEN /\ errChan' = <<err>>
                /\ ctxDone' = (ctxDone \/ ReportCancels(err))
           ELSE UNCHANGED <<errChan, ctxDone>>
    /\ wk' = [wk EXCEPT ![w] = WorkerAt("exited")]
    /\ UNCHANGED <<apiVars, cfg, state, pc, diskVars, disp, sigInt, postPartCh, postPartClosed,
                   hk, retVars, histVars, runs>>

AfterMarkNoSave(rec) ==
    IF HasPostPartCmd
    THEN [rec EXCEPT !.pc = "hooksend", !.req = <<>>, !.attempt = 0, !.wait = 0, !.skipped = FALSE]
    ELSE WorkerAt("idle")

\* after MarkChunkCompleted the worker calls d.state.Save()
AfterMark(rec) == [rec EXCEPT !.pc = "save", !.req = <<>>, !.attempt = 0, !.wait = 0, !.skipped = FALSE]

\* d.state.MarkChunkCompleted(work.index, work.chunk.End-work.chunk.Start+1)
Mark(w) ==
    /\ Running
    /\ wk[w].pc = "mark"
    /\ state' = MarkChunkCompleted(state, wk[w].work.index,
                                   ChunkOf(w).end - ChunkOf(w).start + 1)
    /\ wk' = [wk EXCEPT ![w] = AfterMark(@)]
    /\ UNCHANGED <<apiVars, cfg, pc, diskVars, disp, errChan, ctxDone, sigInt, postPartCh,
                   postPartClosed, hk, retVars, histVars, runs>>

\* state.go: Save, under State.mu: the whole state replaces the state file
SaveOk(w) ==
    /\ Running
    /\ wk[w].pc = "save"
    /\ stateFile' = state
    /\ wk' = [wk EXCEPT ![w] = IF HasPostPartCmd THEN [@ EXCEPT !.pc = "hooksend"]
                                ELSE WorkerAt("idle")]
    /\ UNCHANGED <<apiVars, cfg, state, pc, tmp, part, disp, errChan, ctxDone, sigInt, postPartCh,
                   postPartClosed, hk, retVars, histVars, runs>>

\* Save returns an error (the write or the rename failed): the state file
\* keeps its previous content
SaveFailed(w) ==
    /\ Running
    /\ wk[w].pc = "save"
    /\ wk' = [wk EXCEPT ![w].pc = "report", ![w].err = SaveError]
    /\ saveErr' = TRUE
    /\ UNCHANGED <<apiVars, cfg, state, pc, diskVars, disp, errChan, ctxDone, sigInt, postPartCh,
                   postPartClosed, hk, retVars, failed, hookRuns, pending, runs>>

PostPartCapOne(s) == 1

\* d.postPartCh = make(chan int, len(d.state.Chunks))
PostPartCap(s) == Len0(s.chunks)

\* case d.postPartCh <- work.index: taken when the buffer has room
HookSend(w) ==
    /\ Running
    /\ wk[w].pc = "hooksend"
    /\ Len(postPartCh) < PostPartCap(state)
    /\ postPartCh' = Append(postPartCh, wk[w].work.index)
    /\ wk' = [wk EXCEPT ![w] = WorkerAt("idle")]
    /\ UNCHANGED <<apiVars, cfg, state, pc, diskVars, disp, errChan, ctxDone, sigInt,
                   postPartClosed, hk, retVars, histVars, runs>>

\* case <-ctx.Done(): return
HookSendCancelled(w) ==
    /\ Running
    /\ wk[w].pc = "hooksend"
    /\ ctxDone
    /\ wk' = [wk EXCEPT ![w] = WorkerAt("exited")]
    /\ UNCHANGED <<apiVars, cfg, state, pc, diskVars, disp, errChan, ctxDone, sigInt, postPartCh,
                   postPartClosed, hk, retVars, histVars, runs>>

\* for work := range workChan ends when the dispatcher has closed workChan
WorkerExit(w) ==
    /\ Running
    /\ wk[w].pc = "idle"
    /\ disp.closed
    /\ wk' = [wk EXCEPT ![w].pc = "exited"]
    /\ UNCHANGED <<apiVars, cfg, state, pc, diskVars, disp, errChan, ctxDone, sigInt, postPartCh,
                   postPartClosed, hk, retVars, histVars, runs>>

(***************************************************************************)
(* downloader.go: postPartWorker.  Positions: "idle" (receiving from       *)
(* postPartCh), "running" (the command runs), "save", "exited".            *)
(***************************************************************************)
ReceivedNone(ch) == ch

\* for index := range d.postPartCh: a receive takes the index off the channel
Received(ch) == Tail(ch)

\* the receive; the command then runs (exec.Command("sh", "-c", cmd))
HookRecv(h) ==
    /\ Running
    /\ hk[h].pc = "idle"
    /\ postPartCh # <<>>
    /\ hk' = [hk EXCEPT ![h] = [pc |-> "running", index |-> Head(postPartCh),
                                 cmdErr |-> FALSE]]
    /\ postPartCh' = Received(postPartCh)
    /\ hookRuns' = [hookRuns EXCEPT ![Head(postPartCh)] = @ + 1]
    /\ UNCHANGED <<apiVars, cfg, state, pc, diskVars, wk, disp, errChan, ctxDone, sigInt,
                   postPartClosed, retVars, failed, saveErr, pending, runs>>

\* execCmd.CombinedOutput() returned; d.state.MarkPostPartCompleted(index, err == nil)
HookDone(h) ==
    /\ Running
    /\ hk[h].pc = "running"
    /\ \E success \in BOOLEAN :
           /\ state' = MarkPostPartCompleted(state, hk[h].index, success)
           /\ hk' = [hk EXCEPT ![h].pc = "save", ![h].cmdErr = ~success]
    /\ UNCHANGED <<apiVars, cfg, pc, diskVars, wk, disp, errChan, ctxDone, sigInt, postPartCh,
                   postPartClosed, retVars, histVars, runs>>

\* d.state.Save(); a failure is only logged
HookSave(h) ==
    /\ Running
    /\ hk[h].pc = "save"
    /\ \E ok \in BOOLEAN :
           /\ stateFile' = IF ok THEN state ELSE stateFile
           /\ saveErr' = (saveErr \/ ~ok)
    /\ hk' = [hk EXCEPT ![h] = [pc |-> "idle", index |-> Absent, cmdErr |-> FALSE]]
    /\ UNCHANGED <<apiVars, cfg, state, pc, tmp, part, wk, disp, errChan, ctxDone, sigInt,
                   postPartCh, postPartClosed, retVars, failed, hookRuns, pending, runs>>

\* for index := range d.postPartCh ends: the channel is closed and drained
HookExit(h) ==
    /\ Running
    /\ hk[h].pc = "idle"
    /\ postPartClosed
    /\ postPartCh = <<>>
    /\ hk' = [hk EXCEPT ![h].pc = "exited"]
    /\ UNCHANGED <<apiVars, cfg, state, pc, diskVars, wk, disp, errChan, ctxDone, sigInt,
                   postPartCh, postPartClosed, retVars, histVars, runs>>

(***************************************************************************)
(* downloader.go: the tail of downloadAllChunks, on the main goroutine.    *)
(***************************************************************************)
AllWorkersExited == \A w \in Workers : wk[w].pc \in {"exited", "none"}

AllHooksExitedNoWait == TRUE

\* d.postPartWg.Wait(): every postPartWorker has returned
AllHooksExited == \A h \in HookWorkers : hk[h].pc \in {"exited", "none"}

\* wg.Wait(); close(errChan); if HasPostPartCmd { close(d.postPartCh) }
WorkersJoined ==
    /\ pc = "run"
    /\ AllWorkersExited
    /\ pc' = "joined"
    /\ postPartClosed' = HasPostPartCmd
    /\ UNCHANGED <<apiVars, cfg, state, diskVars, wk, disp, errChan, ctxDone, sigInt, postPartCh,
                   hk, retVars, histVars, runs>>

\* d.postPartWg.Wait(); return the first error if any; deferred cancel()
AllChunksReturn ==
    /\ pc = "joined"
    /\ AllHooksExited
    /\ retAll' = IF errChan = <<>> THEN Nil ELSE Head(errChan)
    /\ ctxDone' = TRUE
    /\ pc' = "returned"
    /\ UNCHANGED <<apiVars, cfg, state, diskVars, wk, disp, errChan, sigInt, postPartCh,
                   postPartClosed, hk, retDownload, retCmd, histVars, runs>>

(***************************************************************************)
(* downloader.go: the tail of Download, and cmd/download.go: what          *)
(* DownloadCommand does with its result.                                   *)
(***************************************************************************)
\* if err == context.Canceled
IsCanceled(err) == err = ContextCanceled

DownloadFailedNever(err) == FALSE

\* if err := d.downloadAllChunks(ctx); err != nil { return err }
DownloadFailed(err) == err # Nil

DownloadReturn ==
    /\ pc = "returned"
    /\ IF DownloadFailed(retAll)
       THEN \* Download returns err
            /\ retDownload' = retAll
            /\ IF IsCanceled(retAll)
               THEN \* "Download cancelled": state.Save(); return nil
                    /\ stateFile' = state
                    /\ retCmd' = Nil
               ELSE /\ retCmd' = retAll
                    /\ UNCHANGED stateFile
       ELSE \* d.state.Delete(): os.Remove(s.filePath)
            IF stateFile = Nil
            THEN /\ retDownload' = DeleteError
                 /\ retCmd' = DeleteError
                 /\ UNCHANGED stateFile
            ELSE /\ stateFile' = Nil
                 /\ retDownload' = Nil
                 /\ retCmd' = Nil
    /\ pc' = "exited"
    /\ UNCHANGED <<apiVars, cfg, state, tmp, part, procVars, retAll, histVars, runs>>

(***************************************************************************)
(* The environment: a signal cancels the context of DownloadCommand; the   *)
(* process is killed; the command is run again in the same directory.      *)
(***************************************************************************)
Interrupt ==
    /\ pc \in {"start", "run", "joined"}
    /\ ~sigInt
    /\ sigInt' = TRUE
    /\ ctxDone' = TRUE
    /\ UNCHANGED <<apiVars, cfg, state, pc, diskVars, wk, disp, errChan, postPartCh,
                   postPartClosed, hk, retVars, histVars, runs>>

ProcessGone ==
    /\ state' = Nil
    /\ wk' = [w \in Workers |-> WorkerAt("none")]
    /\ disp' = [i |-> 0, closed |-> FALSE, sent |-> <<>>]
    /\ errChan' = <<>>
    /\ ctxDone' = FALSE
    /\ sigInt' = FALSE
    /\ postPartCh' = <<>>
    /\ postPartClosed' = FALSE
    /\ hk' = [h \in HookWorkers |-> [pc |-> "none", index |-> Absent, cmdErr |-> FALSE]]
    /\ retAll' = Nil
    /\ retDownload' = Nil
    /\ retCmd' = Nil
    /\ failed' = {}
    /\ saveErr' = FALSE
    /\ hookRuns' = [i \in ChunkIdx |-> 0]
    /\ pending' = {}

Kill ==
    /\ pc \in {"run", "joined", "returned"}
    /\ runs < MaxRuns
    /\ pc' = "killed"
    /\ ProcessGone
    /\ UNCHANGED <<apiVars, cfg, diskVars, runs>>

\* another resource with the same file name, hence the same prefix
OtherURL == "http://mirror.example.com/file"

OtherTotalSize == TotalSize + 1

\* the state file the next run finds: the one left behind, none, or one that
\* a download of another URL or of another size wrote under the same prefix
FoundStateFiles(f) ==
    {f, Nil} \cup (IF f = Nil THEN {}
                   ELSE {[f EXCEPT !.url = OtherURL], [f EXCEPT !.totalSize = OtherTotalSize]})

\* the same command line again, with or without --force
Rerun ==
    /\ pc \in {"exited", "killed"}
    /\ runs < MaxRuns
    /\ runs' = runs + 1
    /\ pc' = "start"
    /\ ProcessGone
    /\ \E found \in FoundStateFiles(stateFile) : stateFile' = found
    /\ \E force \in BOOLEAN : cfg' = [cfg EXCEPT !.force = force]
    /\ UNCHANGED <<apiVars, tmp, part>>

Next ==
    \/ DownloadStart
    \/ DispatchSkip
    \/ \E w \in Workers : Dispatch(w)
    \/ DispatchCancelled
    \/ DispatchDone
    \/ \E w \in Workers : StartAttempt(w)
    \/ \E w \in Workers : BackoffCancelled(w)
    \/ \E w \in Workers : FetchSucceeded(w)
    \/ \E w \in Workers : FetchFailed(w)
    \/ \E w \in Workers : FinalizeFailed(w)
    \/ \E w \in Workers : Report(w)
    \/ \E w \in Workers : Mark(w)
    \/ \E w \in Workers : SaveOk(w)
    \/ \E w \in Workers : SaveFailed(w)
    \/ \E w \in Workers : HookSend(w)
    \/ \E w \in Workers : HookSendCancelled(w)
    \/ \E w \in Workers : WorkerExit(w)
    \/ \E h \in HookWorkers : HookRecv(h)
    \/ \E h \in HookWorkers : HookDone(h)
    \/ \E h \in HookWorkers : HookSave(h)
    \/ \E h \in HookWorkers : HookExit(h)
    \/ WorkersJoined
    \/ AllChunksReturn
    \/ DownloadReturn
    \/ Interrupt
    \/ Kill
    \/ Rerun

Spec == Init /\ [][Next]_vars

(***************************************************************************)
(* SpecLive: one run of Download under fair scheduling.  The run starts in *)
(* an empty directory or in what an earlier run that was stopped left      *)
(* behind: the first chunks complete and recorded in the state file, some  *)
(* of them with their post-part command done, the next chunk possibly with *)
(* a partial .tmp file; or in what an earlier run that completed every     *)
(* chunk and returned without error left behind: every .part file and no   *)
(* state file (Download deletes it).  The chunks whose post-part command   *)
(* succeeded in the earlier run are kept in lastCall.hooked, which no step *)
(* changes, and lastCall.finished tells which case it is.                  *)
(* Every goroutine that can take a step eventually takes one: a call of    *)
(* the transport returns (with or without an error), a post-part command   *)
(* ends, a timer fires, a send or receive that is ready happens.  Nothing  *)
(* is assumed about signals.                                               *)
(***************************************************************************)
LiveTotalSize == 3    \* --size of the run: two chunks

LivePlan == NewState(URL, LiveTotalSize, ChunkSize, Prefix)

\* the State an earlier run saved after completing the chunks below k, the
\* post-part command of those in hooked having succeeded
SavedAfter(k, hooked) ==
    LET plan == LivePlan
    IN  [plan EXCEPT
            !.chunks = [i \in DOMAIN plan.chunks |->
                          IF i < k
                          THEN [plan.chunks[i] EXCEPT
                                   !.completed = TRUE,
                                   !.downloaded = plan.chunks[i].end - plan.chunks[i].start + 1,
                                   !.postPartCompleted = (i \in hooked)]
                          ELSE plan.chunks[i]],
            !.completedCount = k]

LiveInit ==
    /\ cfg \in [ url : {URL}, totalSize : {LiveTotalSize}, chunkSize : {ChunkSize},
                 maxConcurrency : 1..MaxConcurrency, maxRetries : {MaxRetries},
                 force : {FALSE}, postPartCmd : BOOLEAN,
                 postPartConcurrency : {MaxPostPartJobs} ]
    /\ state = Nil
    /\ pc = "start"
    /\ \E k \in 0..Len0(LivePlan.chunks), partial \in {Absent, 1}, finished \in BOOLEAN :
       \E hooked \in SUBSET {i \in ChunkIdx : i < k} :
           /\ hooked # {} => cfg.postPartCmd
           /\ k = Len0(LivePlan.chunks) => partial = Absent
           /\ finished => k = Len0(LivePlan.chunks)
           /\ stateFile = IF k = 0 \/ finished THEN Nil ELSE SavedAfter(k, hooked)
           /\ lastCall = [hooked |-> hooked, finished |-> finished]
           /\ part = [i \in ChunkIdx |->
                        IF i < k THEN SavedAfter(k, hooked).chunks[i].downloaded ELSE Absent]
           /\ tmp = [i \in ChunkIdx |-> IF i = k THEN partial ELSE Absent]
    /\ wk = [w \in Workers |-> WorkerAt("none")]
    /\ disp = [i |-> 0, closed |-> FALSE, sent |-> <<>>]
    /\ errChan = <<>>
    /\ ctxDone = FALSE
    /\ sigInt = FALSE
    /\ postPartCh = <<>>
    /\ postPartClosed = FALSE
    /\ hk = [h \in HookWorkers |-> [pc |-> "none", index |-> Absent, cmdErr |-> FALSE]]
    /\ retAll = Nil
    /\ retDownload = Nil
    /\ retCmd = Nil
    /\ failed = {}
    /\ saveErr = FALSE
    /\ hookRuns = [i \in ChunkIdx |-> 0]
    /\ pending = {}
    /\ runs = MaxRuns
    /\ mu = NoHolder
    /\ th = <<>>
    /\ stateTmp = Nil
    /\ rangeCall = Nil
    /\ dir = Nil
    /\ mg = Nil

\* the steps of the dispatcher goroutine
DispatcherStep ==
    \/ DispatchSkip
    \/ \E w \in Workers : Dispatch(w)
    \/ DispatchCancelled
    \/ DispatchDone

\* the steps of download worker w
WorkerStep(w) ==
    \/ StartAttempt(w)
    \/ BackoffCancelled(w)
    \/ FetchSucceeded(w)
    \/ FetchFailed(w)
    \/ FinalizeFailed(w)
    \/ Report(w)
    \/ Mark(w)
    \/ SaveOk(w)
    \/ SaveFailed(w)
    \/ HookSend(w)
    \/ HookSendCancelled(w)
    \/ WorkerExit(w)

\* the steps of post-part worker h
HookStep(h) ==
    \/ HookRecv(h)
    \/ HookDone(h)
    \/ HookSave(h)
    \/ HookExit(h)

\* the steps of the main goroutine
MainStep ==
    \/ DownloadStart
    \/ WorkersJoined
    \/ AllChunksReturn
    \/ DownloadReturn

LiveNext ==
    \/ DispatcherStep
    \/ \E w \in Workers : WorkerStep(w)
    \/ \E h \in HookWorkers : HookStep(h)
    \/ MainStep
    \/ Interrupt

Fairness ==
    /\ WF_vars(DispatcherStep)
    /\ \A w \in Workers : WF_vars(WorkerStep(w))
    /\ \A h \in HookWorkers : WF_vars(HookStep(h))
    /\ WF_vars(MainStep)

SpecLive == LiveInit /\ [][LiveNext]_vars /\ Fairness

(***************************************************************************)
(* SpecPlan: NewState over bounded inputs, as TestNewState calls it.       *)
(***************************************************************************)
PlanInit ==
    /\ cfg \in [ url : {URL}, totalSize : PlanTotalSizes, chunkSize : PlanChunkSizes ]
    /\ state = Nil
    /\ pc = "plan"
    /\ NoProcess
    /\ NoApi

PlanNewState ==
    /\ pc = "plan"
    /\ state' = NewState(cfg.url, cfg.totalSize, cfg.chunkSize, Prefix)
    /\ pc' = "planned"
    /\ UNCHANGED <<apiVars, cfg, diskVars, procVars, retVars, histVars, runs>>

PlanNext == PlanNewState

SpecPlan == PlanInit /\ [][PlanNext]_vars

(***************************************************************************)
(* SpecApi: the methods of State called one after another on the State of  *)
(* a fresh download, with in-range and out-of-range indexes.               *)
(***************************************************************************)
ApiTotalSize == 3     \* total size of the State of the harnesses
ApiChunkSize == 1     \* chunk size of the State of the harnesses
MaxDownloaded == 2    \* largest downloaded argument
MaxCallers == 2       \* goroutines calling the State concurrently (SpecState)
SharedTotalSize == 2  \* total size of the State the goroutines share (SpecState)

ApiState == NewState(URL, ApiTotalSize, ApiChunkSize, Prefix)

\* indexes passed by the callers: one below and one above the valid ones
ApiIndexes == (0 - 1)..Len0(ApiState.chunks)

ApiInit ==
    /\ cfg = [url |-> URL, totalSize |-> ApiTotalSize, chunkSize |-> ApiChunkSize]
    /\ state = ApiState
    /\ pc = "api"
    /\ NoProcess
    /\ NoApi

\* the record of a call: its arguments and whether the chunk was complete
Call(op, index, downloaded, success) ==
    [op |-> op, index |-> index, downloaded |-> downloaded, success |-> success,
     again |-> InRange(state, index) /\ state.chunks[index].completed]

ApiMarkChunkCompleted ==
    /\ pc = "api"
    /\ \E index \in ApiIndexes, downloaded \in 1..MaxDownloaded :
           /\ state' = MarkChunkCompleted(state, index, downloaded)
           /\ lastCall' = Call("MarkChunkCompleted", index, downloaded, FALSE)
    /\ UNCHANGED <<cfg, pc, diskVars, procVars, retVars, histVars, runs, mu, th, stateTmp, rangeCall,
                   dir, mg>>

ApiMarkPostPartCompleted ==
    /\ pc = "api"
    /\ \E index \in ApiIndexes, success \in BOOLEAN :
           /\ state' = MarkPostPartCompleted(state, index, success)
           /\ lastCall' = Call("MarkPostPartCompleted", index, 0, success)
    /\ UNCHANGED <<cfg, pc, diskVars, procVars, retVars, histVars, runs, mu, th, stateTmp, rangeCall,
                   dir, mg>>

ApiUpdateChunkProgress ==
    /\ pc = "api"
    /\ \E index \in ApiIndexes, downloaded \in 0..MaxDownloaded :
           /\ state' = UpdateChunkProgress(state, index, downloaded)
           /\ lastCall' = Call("UpdateChunkProgress", index, downloaded, FALSE)
    /\ UNCHANGED <<cfg, pc, diskVars, procVars, retVars, histVars, runs, mu, th, stateTmp, rangeCall,
                   dir, mg>>

ApiNext ==
    \/ ApiMarkChunkCompleted
    \/ ApiMarkPostPartCompleted
    \/ ApiUpdateChunkProgress

SpecApi == ApiInit /\ [][ApiNext]_vars

(***************************************************************************)
(* SpecState: goroutines calling MarkChunkCompleted, MarkPostPartCompleted,*)
(* GetCompletedCount and Save concurrently on one State, one memory or     *)
(* file access per step, under s.mu.                                       *)
(***************************************************************************)
Callers == 1..MaxCallers

SharedState == NewState(URL, SharedTotalSize, ApiChunkSize, Prefix)

SharedIndexes == (0 - 1)..Len0(SharedState.chunks)

Idle == [pc |-> "idle", op |-> "none", index |-> Absent, downloaded |-> 0,
         success |-> FALSE, data |-> Nil]

StateInit ==
    /\ cfg = [url |-> URL, totalSize |-> SharedTotalSize, chunkSize |-> ApiChunkSize]
    /\ state = SharedState
    /\ pc = "threads"
    /\ NoProcess
    /\ mu = NoHolder
    /\ th = [t \in Callers |-> Idle]
    /\ stateTmp = Nil
    /\ lastCall = Nil
    /\ rangeCall = Nil
    /\ dir = Nil
    /\ mg = Nil

At(t, op, p) == pc = "threads" /\ th[t].op = op /\ th[t].pc = p

Goto(t, p) == th' = [th EXCEPT ![t].pc = p]

StateFrame == UNCHANGED <<cfg, pc, tmp, part, procVars, retVars, histVars, runs, lastCall,
                          rangeCall, dir, mg>>

\* a goroutine calls a method of the State
CallMethod(t) ==
    /\ pc = "threads"
    /\ th[t].pc = "idle"
    /\ \E op \in {"MarkChunkCompleted", "MarkPostPartCompleted", "GetCompletedCount", "Save"},
          index \in SharedIndexes, downloaded \in {MaxDownloaded}, success \in BOOLEAN :
           /\ op \in {"GetCompletedCount", "Save"} => index = 0
           /\ op # "MarkPostPartCompleted" => success
           \* postPartWorker takes the indexes of complete chunks
           /\ op = "MarkPostPartCompleted" =>
                  InRange(state, index) /\ state.chunks[index].completed
           /\ th' = [th EXCEPT ![t] = [pc |-> "lock", op |-> op, index |-> index,
                                       downloaded |-> downloaded, success |-> success,
                                       data |-> Nil]]
    /\ UNCHANGED <<state, mu, stateFile, stateTmp>>
    /\ StateFrame

AcquireAnyway(t) == TRUE

\* sync.Mutex: Lock returns when no goroutine holds the mutex
Acquire(t) == mu = NoHolder

\* s.mu.Lock()
Lock(t) ==
    /\ pc = "threads"
    /\ th[t].pc = "lock"
    /\ Acquire(t)
    /\ mu' = t
    /\ Goto(t, "body")
    /\ UNCHANGED <<state, stateFile, stateTmp>>
    /\ StateFrame

\* defer s.mu.Unlock(), and the return of the method
Unlock(t) ==
    /\ pc = "threads"
    /\ th[t].pc = "unlock"
    /\ mu' = NoHolder
    /\ th' = [th EXCEPT ![t] = Idle]
    /\ UNCHANGED <<state, stateFile, stateTmp>>
    /\ StateFrame

\* MarkChunkCompleted: the bounds check and  if !chunk.Completed
MarkTest(t) ==
    /\ At(t, "MarkChunkCompleted", "body")
    /\ Goto(t, IF InRange(state, th[t].index) /\ ~state.chunks[th[t].index].completed
               THEN "setCompleted" ELSE "unlock")
    /\ UNCHANGED <<state, mu, stateFile, stateTmp>>
    /\ StateFrame

\* chunk.Completed = true
MarkSetCompleted(t) ==
    /\ At(t, "MarkChunkCompleted", "setCompleted")
    /\ state' = [state EXCEPT !.chunks[th[t].index].completed = TRUE]
    /\ Goto(t, "setDownloaded")
    /\ UNCHANGED <<mu, stateFile, stateTmp>>
    /\ StateFrame

\* chunk.Downloaded = downloaded
MarkSetDownloaded(t) ==
    /\ At(t, "MarkChunkCompleted", "setDownloaded")
    /\ state' = [state EXCEPT !.chunks[th[t].index].downloaded = th[t].downloaded]
    /\ Goto(t, "incCount")
    /\ UNCHANGED <<mu, stateFile, stateTmp>>
    /\ StateFrame

\* s.CompletedCount++
MarkIncCount(t) ==
    /\ At(t, "MarkChunkCompleted", "incCount")
    /\ state' = [state EXCEPT !.completedCount = @ + 1]
    /\ Goto(t, "unlock")
    /\ UNCHANGED <<mu, stateFile, stateTmp>>
    /\ StateFrame

\* MarkPostPartCompleted: the bounds check and
\* s.Chunks[index].PostPartCompleted = success
PostPartSet(t) ==
    /\ At(t, "MarkPostPartCompleted", "body")
    /\ state' = MarkPostPartCompleted(state, th[t].index, th[t].success)
    /\ Goto(t, "unlock")
    /\ UNCHANGED <<mu, stateFile, stateTmp>>
    /\ StateFrame

\* GetCompletedCount: return s.CompletedCount
ReadCount(t) ==
    /\ At(t, "GetCompletedCount", "body")
    /\ Goto(t, "unlock")
    /\ UNCHANGED <<state, mu, stateFile, stateTmp>>
    /\ StateFrame

\* Save: data, err := json.MarshalIndent(s, "", "  ")
SaveMarshal(t) ==
    /\ At(t, "Save", "body")
    /\ th' = [th EXCEPT ![t].pc = "write", ![t].data = state]
    /\ UNCHANGED <<state, mu, stateFile, stateTmp>>
    /\ StateFrame

\* content of a file that was created or truncated and not written to the end
Partial == [partial |-> TRUE]

WritesInPlace == FALSE

\* tmpPath := s.filePath + ".tmp": the data is written next to the state file
WritesToTmp == TRUE

\* Save: os.WriteFile(tmpPath, data, 0644) opens the file with
\* O_WRONLY|O_CREATE|O_TRUNC
SaveOpen(t) ==
    /\ At(t, "Save", "write")
    /\ \E ok \in BOOLEAN :
           /\ stateTmp' = IF ok /\ WritesToTmp THEN Partial ELSE stateTmp
           /\ stateFile' = IF ok /\ ~WritesToTmp THEN Partial ELSE stateFile
           /\ Goto(t, IF ok THEN "writing" ELSE "unlock")
    /\ UNCHANGED <<state, mu>>
    /\ StateFrame

\* Save: os.WriteFile writes the data and closes the file; after an error
\* the file is left with part of the data
SaveWrite(t) ==
    /\ At(t, "Save", "writing")
    /\ \E ok \in BOOLEAN :
           /\ stateTmp' = IF ok /\ WritesToTmp THEN th[t].data ELSE stateTmp
           /\ stateFile' = IF ok /\ ~WritesToTmp THEN th[t].data ELSE stateFile
           /\ Goto(t, IF ok THEN "rename" ELSE "unlock")
    /\ UNCHANGED <<state, mu>>
    /\ StateFrame

\* Save: os.Rename(tmpPath, s.filePath)
SaveRename(t) ==
    /\ At(t, "Save", "rename")
    /\ \E ok \in BOOLEAN :
           /\ stateFile' = IF ok THEN stateTmp ELSE stateFile
           /\ stateTmp' = IF ok THEN Nil ELSE stateTmp
    /\ Goto(t, "unlock")
    /\ UNCHANGED <<state, mu>>
    /\ StateFrame

\* the process dies: the goroutines are gone, the files stay as they are
Crash ==
    /\ pc = "threads"
    /\ pc' = "crashed"
    /\ th' = [t \in Callers |-> Idle]
    /\ mu' = NoHolder
    /\ UNCHANGED <<cfg, state, diskVars, procVars, retVars, histVars, runs, stateTmp, lastCall,
                   rangeCall, dir, mg>>

StateNext ==
    \/ Crash
    \/ \E t \in Callers :
        \/ CallMethod(t)
        \/ Lock(t)
        \/ Unlock(t)
        \/ MarkTest(t)
        \/ MarkSetCompleted(t)
        \/ MarkSetDownloaded(t)
        \/ MarkIncCount(t)
        \/ PostPartSet(t)
        \/ ReadCount(t)
        \/ SaveMarshal(t)
        \/ SaveOpen(t)
        \/ SaveWrite(t)
        \/ SaveRename(t)

SpecState == StateInit /\ [][StateNext]_vars

(***************************************************************************)
(* SpecInput: DownloadCommand and Download up to the first request, for    *)
(* every --size and -c value, valid or not, on a directory without a state *)
(* file.                                                                   *)
(***************************************************************************)
MaxInputSize == 3     \* --size and -c range over -MaxInputSize..MaxInputSize

InputSizes == (0 - MaxInputSize)..MaxInputSize

\* resp.ContentLength of the HEAD response (-1 when the server sends none)
HeadLengths == (0 - 1)..MaxInputSize

NoHeadError == [op |-> "usage", index |-> Absent, cause |-> "--no-head requires --size"]

ContentLengthError == [op |-> "head", index |-> Absent, cause |-> "failed to get content length"]

InputInit ==
    /\ cfg \in [ url : {URL}, totalSize : InputSizes, chunkSize : InputSizes,
                 noHead : BOOLEAN ]
    /\ state = Nil
    /\ pc = "parse"
    /\ NoProcess
    /\ NoApi

InputFrame == UNCHANGED <<apiVars, tmp, part, procVars, retAll, histVars, runs>>

\* download.go: if *noHead && totalSize == 0 { return error }
InputNoHead ==
    /\ pc = "parse"
    /\ IF cfg.noHead /\ cfg.totalSize = 0
       THEN /\ pc' = "exited"
            /\ retCmd' = NoHeadError
       ELSE /\ pc' = "size"
            /\ UNCHANGED retCmd
    /\ UNCHANGED <<cfg, state, stateFile, retDownload>>
    /\ InputFrame

\* Download: if totalSize == 0 { totalSize, err = d.client.GetContentLength(...) }
\* GetContentLength: if resp.ContentLength <= 0 { return 0, error }
InputContentLength ==
    /\ pc = "size"
    /\ IF cfg.totalSize # 0
       THEN /\ pc' = "plan"
            /\ UNCHANGED <<cfg, retDownload, retCmd>>
       ELSE \E length \in HeadLengths :
               IF length <= 0
               THEN /\ pc' = "exited"
                    /\ retDownload' = ContentLengthError
                    /\ retCmd' = ContentLengthError
                    /\ UNCHANGED cfg
               ELSE /\ pc' = "plan"
                    /\ cfg' = [cfg EXCEPT !.totalSize = length]
                    /\ UNCHANGED <<retDownload, retCmd>>
    /\ UNCHANGED <<state, stateFile>>
    /\ InputFrame

\* NewState: the division panics for chunkSize = 0 and make([]*ChunkInfo, n)
\* panics for n < 0
NewStatePanics(totalSize, chunkSize) ==
    IF chunkSize = 0 THEN TRUE ELSE NumChunks(totalSize, chunkSize) < 0

\* Download: d.state = NewState(d.config.URL, totalSize, d.config.ChunkSize, prefix)
InputNewState ==
    /\ pc = "plan"
    /\ IF NewStatePanics(cfg.totalSize, cfg.chunkSize)
       THEN /\ pc' = "panicked"
            /\ UNCHANGED state
       ELSE /\ pc' = "planned"
            /\ state' = NewState(cfg.url, cfg.totalSize, cfg.chunkSize, Prefix)
    /\ UNCHANGED <<cfg, stateFile, retDownload, retCmd>>
    /\ InputFrame

\* downloadChunk on an empty directory sends a request for the chunk
SendsFirstRequest(chunk) == ResumeStart(chunk, 0) <= chunk.end

\* downloadAllChunks: every chunk is handed to a worker; a chunk with
\* end < start is finalized as an empty artifact without a request, marked
\* and saved; with no request at all the call returns nil and Download
\* prints the completion (the empty artifacts are not recorded here)
InputDownloadAll ==
    /\ pc = "planned"
    /\ IF \E i \in DOMAIN state.chunks : SendsFirstRequest(state.chunks[i])
       THEN /\ pc' = "fetch"
            /\ UNCHANGED <<state, stateFile>>
       ELSE /\ pc' = "complete"
            /\ state' = [state EXCEPT
                           !.chunks = [i \in DOMAIN state.chunks |->
                                          [state.chunks[i] EXCEPT
                                              !.completed = TRUE,
                                              !.downloaded = state.chunks[i].end
                                                             - state.chunks[i].start + 1]],
                           !.completedCount = Len0(state.chunks)]
            /\ stateFile' = IF DOMAIN state.chunks = {} THEN stateFile ELSE state'
    /\ UNCHANGED <<cfg, retDownload, retCmd>>
    /\ InputFrame

\* Download: d.progress.PrintComplete(); d.state.Delete()
InputDelete ==
    /\ pc = "complete"
    /\ pc' = "exited"
    /\ IF stateFile = Nil
       THEN /\ retDownload' = DeleteError
            /\ retCmd' = DeleteError
            /\ UNCHANGED stateFile
       ELSE /\ retDownload' = Nil
            /\ retCmd' = Nil
            /\ stateFile' = Nil
    /\ UNCHANGED <<cfg, state>>
    /\ InputFrame

InputNext ==
    \/ InputNoHead
    \/ InputContentLength
    \/ InputNewState
    \/ InputDownloadAll
    \/ InputDelete

SpecInput == InputInit /\ [][InputNext]_vars

(***************************************************************************)
(* SpecRange: client.go, Client.DownloadRange / downloadRangeOnce.  One    *)
(* call on a range start..end with start <= end, as downloadChunk passes   *)
(* it (resumeStart <= chunk.End).  The request, then one iteration of the  *)
(* copy loop per step; the context may be cancelled between the steps.     *)
(* The server chooses the status and what each Read returns: n bytes       *)
(* (0 <= n <= len of the slice read into) with no error, with io.EOF or    *)
(* with another error; the sink accepts the bytes or fails after a part    *)
(* of them.                                                                *)
(***************************************************************************)
MaxRangeEnd == 3      \* largest end of the range; start is 0 or 1
BufLen == 2           \* len(buf), 32*1024 in the code

\* the status codes a server answers with
Statuses == {200, 206, 404, 416}

StatusAccepted(status) == status = 206 \/ status = 200

\* the errors of downloadRangeOnce
RequestFailed == [op |-> "range", index |-> Absent, cause |-> "request failed"]
UnexpectedStatus == [op |-> "range", index |-> Absent, cause |-> "unexpected status code"]
WriteFailed == [op |-> "range", index |-> Absent, cause |-> "write failed"]
ReadFailed == [op |-> "range", index |-> Absent, cause |-> "read failed"]
IncompleteDownload == [op |-> "range", index |-> Absent, cause |-> "incomplete download"]

ReadErrors == {"nil", "EOF", "other"}

RangeInit ==
    /\ cfg = [url |-> URL, totalSize |-> MaxRangeEnd + 1, chunkSize |-> MaxRangeEnd + 1]
    /\ state = Nil
    /\ pc = "range"
    /\ NoProcess
    /\ mu = NoHolder
    /\ th = <<>>
    /\ stateTmp = Nil
    /\ lastCall = Nil
    /\ dir = Nil
    /\ mg = Nil
    /\ \E start \in 0..1, end \in 0..MaxRangeEnd :
           /\ start <= end
           /\ rangeCall = [pc |-> "request", start |-> start, end |-> end,
                           status |-> 0, totalRead |-> 0, written |-> 0,
                           eof |-> FALSE, cancelled |-> FALSE, err |-> Nil]

RangeFrame == UNCHANGED <<cfg, state, pc, diskVars, procVars, retVars, histVars, runs,
                          mu, th, stateTmp, lastCall, dir, mg>>

RangeReturn(call, err) == [call EXCEPT !.pc = "returned", !.err = err]

expectedBytes(call) == call.end - call.start + 1

\* the context is cancelled while the call runs
RangeCancel ==
    /\ pc = "range"
    /\ rangeCall.pc \in {"request", "copy"}
    /\ ~rangeCall.cancelled
    /\ rangeCall' = [rangeCall EXCEPT !.cancelled = TRUE]
    /\ RangeFrame

\* c.client.Do(req) and the check of the status
RangeRequest ==
    /\ pc = "range"
    /\ rangeCall.pc = "request"
    /\ \E sent \in BOOLEAN, status \in Statuses :
           rangeCall' =
               IF ~sent THEN RangeReturn(rangeCall, RequestFailed)
               ELSE IF ~StatusAccepted(status)
                    THEN RangeReturn([rangeCall EXCEPT !.status = status], UnexpectedStatus)
                    ELSE [rangeCall EXCEPT !.status = status, !.pc = "copy"]
    /\ RangeFrame

ReadSizeWhole(remaining) == BufLen

\* readSize: the buffer, or what is left of the range when that is less
ReadSize(remaining) == IF remaining < BufLen THEN remaining ELSE BufLen

\* the end of the copy loop: the check of the number of bytes received
RangeVerify(call) ==
    IF call.totalRead # expectedBytes(call)
    THEN RangeReturn(call, IncompleteDownload)
    ELSE RangeReturn(call, Nil)

\* one iteration of the copy loop (totalRead < expectedBytes on entry); an
\* iteration that ends the loop includes the check that follows the loop
RangeCopy ==
    /\ pc = "range"
    /\ rangeCall.pc = "copy"
    /\ rangeCall.totalRead < expectedBytes(rangeCall)
    /\ IF rangeCall.cancelled
       THEN rangeCall' = RangeReturn(rangeCall, ContextCanceled)
       ELSE \E n \in 0..ReadSize(expectedBytes(rangeCall) - rangeCall.totalRead),
               err \in ReadErrors, wrote \in 0..BufLen :
                /\ wrote <= n
                /\ LET read == [rangeCall EXCEPT !.totalRead = @ + n,
                                                 !.written = @ + wrote,
                                                 !.eof = (err = "EOF")]
                   IN  rangeCall' =
                           IF wrote < n THEN RangeReturn(read, WriteFailed)
                           ELSE IF err = "EOF" THEN RangeVerify(read)
                           ELSE IF err = "other" THEN RangeReturn(read, ReadFailed)
                           ELSE IF read.totalRead < expectedBytes(read) THEN read
                           ELSE RangeVerify(read)
    /\ RangeFrame

RangeNext ==
    \/ RangeCancel
    \/ RangeRequest
    \/ RangeCopy

SpecRange == RangeInit /\ [][RangeNext]_vars

(***************************************************************************)
(* downloader.go: the attempt loop of one downloadChunk call in which      *)
(* every attempt fails, for retry counts large enough to reach the cap of  *)
(* the backoff.                                                            *)
(***************************************************************************)
MaxBackoffRetries == 12   \* -r of the calls, 0..MaxBackoffRetries

RetryCounts == 0..MaxBackoffRetries

BackoffInit ==
    /\ cfg \in [ url : {URL}, totalSize : {TotalSize}, chunkSize : {ChunkSize},
                 maxConcurrency : {1}, maxRetries : RetryCounts,
                 force : {FALSE}, postPartCmd : {FALSE},
                 postPartConcurrency : {MaxPostPartJobs} ]
    /\ state = NewState(URL, TotalSize, ChunkSize, Prefix)
    /\ pc = "chunk"
    /\ stateFile = Nil
    /\ tmp = [i \in ChunkIdx |-> Absent]
    /\ part = [i \in ChunkIdx |-> Absent]
    /\ wk = [w \in Workers |->
                IF w = 1
                THEN [WorkerAt("attempt") EXCEPT
                         !.work = [index |-> 0, needsDownload |-> TRUE,
                                   needsPostPart |-> FALSE]]
                ELSE WorkerAt("none")]
    /\ disp = [i |-> 1, closed |-> FALSE, sent |-> <<0>>]
    /\ errChan = <<>>
    /\ ctxDone = FALSE
    /\ sigInt = FALSE
    /\ postPartCh = <<>>
    /\ postPartClosed = FALSE
    /\ hk = [h \in HookWorkers |-> [pc |-> "none", index |-> Absent, cmdErr |-> FALSE]]
    /\ retAll = Nil
    /\ retDownload = Nil
    /\ retCmd = Nil
    /\ failed = {}
    /\ saveErr = FALSE
    /\ hookRuns = [i \in ChunkIdx |-> 0]
    /\ pending = {}
    /\ runs = 1
    /\ NoApi

BackoffFrame == UNCHANGED <<apiVars, cfg, state, pc, diskVars, disp, errChan, ctxDone, sigInt,
                            postPartCh, postPartClosed, hk, retVars, histVars, runs>>

\* if attempt > 0 { select { ... case <-time.After(backoff): } }, then the request
BackoffElapsed ==
    /\ pc = "chunk"
    /\ wk[1].pc \in {"attempt", "backoff"}
    /\ wk' = [wk EXCEPT ![1].pc = "fetching"]
    /\ BackoffFrame

\* DownloadRange returns an error: continue, or give up after the last retry
BackoffAttemptFails ==
    /\ pc = "chunk"
    /\ wk[1].pc = "fetching"
    /\ wk' = [wk EXCEPT ![1] = AfterFailure(wk[1])]
    /\ BackoffFrame

BackoffNext ==
    \/ BackoffElapsed
    \/ BackoffAttemptFails

SpecBackoff == BackoffInit /\ [][BackoffNext]_vars

(***************************************************************************)
(* merger.go: file names.  A name is the sequence of its bytes; Charset    *)
(* lists the bytes used in ascending byte order, which is the order        *)
(* sort.Strings compares by.                                               *)
(***************************************************************************)
Charset == <<".", "/", "0", "1", "2", "3", "4", "5", "6", "7", "8", "9", "a", "b", "c", "d", "e", "f", "g", "h", "i", "j", "k", "l", "m", "n", "o", "p", "q", "r", "s", "t", "u", "v", "w", "x", "y", "z">>

Code(c) == CHOOSE k \in 1..Len(Charset) : Charset[k] = c

Digits == {"0", "1", "2", "3", "4", "5", "6", "7", "8", "9"}

PartSuffix == <<".", "p", "a", "r", "t">>

\* filepath.Base of a path that does not end in a separator
Base(path) ==
    LET seps == {k \in 1..Len(path) : path[k] = "/"}
    IN  IF seps = {} THEN path
        ELSE SubSeq(path, (CHOOSE k \in seps : \A j \in seps : j <= k) + 1, Len(path))

\* the rest of partFilePattern, `\.(\d+)\.part$`, matched against what follows
\* the basename
MatchesIndexAndPart(rest) ==
    /\ Len(rest) >= Len(PartSuffix) + 2
    /\ rest[1] = "."
    /\ SubSeq(rest, Len(rest) - Len(PartSuffix) + 1, Len(rest)) = PartSuffix
    /\ \A k \in 2..(Len(rest) - Len(PartSuffix)) : rest[k] \in Digits

extractBasenameFirstDot(partFile) ==
    LET name == Base(partFile)
        dots == {k \in 2..Len(name) : name[k] = "."}
    IN  IF dots = {} THEN <<>>
        ELSE SubSeq(name, 1, (CHOOSE k \in dots : \A j \in dots : k <= j) - 1)

\* partFilePattern = `^(.+?)\.(\d+)\.part$` on filepath.Base(partFile): the
\* shortest non-empty basename after which the rest matches; "" when there
\* is no match
extractBasename(partFile) ==
    LET name == Base(partFile)
        ks   == {k \in 1..Len(name) : MatchesIndexAndPart(SubSeq(name, k + 1, Len(name)))}
    IN  IF ks = {} THEN <<>>
        ELSE SubSeq(name, 1, CHOOSE k \in ks : \A j \in ks : k <= j)

NoGroups == [b \in {} |-> <<>>]

RECURSIVE groupFrom(_, _)
\* for _, partFile := range partFiles: append to groups[basename] unless
\* the basename is ""
groupFrom(partFiles, groups) ==
    IF partFiles = <<>> THEN groups
    ELSE LET partFile == Head(partFiles)
             basename == extractBasename(partFile)
         IN  groupFrom(Tail(partFiles),
                       IF basename = <<>> THEN groups
                       ELSE IF basename \in DOMAIN groups
                            THEN [groups EXCEPT ![basename] = Append(@, partFile)]
                            ELSE groups @@ (basename :> <<partFile>>))

groupFilesByBasename(partFiles) == groupFrom(partFiles, NoGroups)

(***************************************************************************)
(* SpecGroup: groupFilesByBasename applied to lists of distinct names, as  *)
(* filepath.Glob returns them: the lists of TestGroupFilesByBasename, the  *)
(* names of TestExtractBasename, and names put together from a few         *)
(* beginnings and endings.                                                 *)
(***************************************************************************)
MaxGroupFiles == 2    \* longest list of names put together

NameStarts == {<<"f">>, <<"g">>, <<"f", ".", "0">>, <<"d", "/", "f">>, <<".">>}

NameEnds == {<<".", "0", ".", "p", "a", "r", "t">>,
             <<".", "1", "0", ".", "p", "a", "r", "t">>,
             <<".", "p", "a", "r", "t">>,
             <<".", "0", ".", "t", "m", "p">>,
             <<".", "0">>,
             <<".", ".", "p", "a", "r", "t">>,
             <<".", "x", ".", "p", "a", "r", "t">>}

TestNames == {<<"f", "i", "l", "e", ".", "0", "0", "0", "0", "0", "0", ".", "p", "a", "r", "t">>,
              <<"m", "y", ".", "f", "i", "l", "e", ".", "n", "a", "m", "e", ".", "0", "0", "0", "0", "0", "1", ".", "p", "a", "r", "t">>,
              <<"d", "o", "w", "n", "l", "o", "a", "d", ".", "1", "2", "3", "4", "5", "6", ".", "p", "a", "r", "t">>,
              <<"/", "p", "a", "t", "h", "/", "t", "o", "/", "f", "i", "l", "e", ".", "0", "0", "0", "0", "0", "0", ".", "p", "a", "r", "t">>,
              <<"f", "i", "l", "e", ".", "p", "a", "r", "t">>,
              <<"f", "i", "l", "e", ".", "0", "0", "0", "0", "0", "0">>,
              <<"f", "i", "l", "e", ".", "0", "0", "0", "0", "0", "0", ".", "t", "m", "p">>}

GroupNames == {b \o e : b \in NameStarts, e \in NameEnds} \cup TestNames

SingleGroupList ==
    <<<<"f", "i", "l", "e", ".", "0", "0", "0", "0", "0", "0", ".", "p", "a", "r", "t">>,
      <<"f", "i", "l", "e", ".", "0", "0", "0", "0", "0", "1", ".", "p", "a", "r", "t">>,
      <<"f", "i", "l", "e", ".", "0", "0", "0", "0", "0", "2", ".", "p", "a", "r", "t">>>>

MultipleGroupsList ==
    <<<<"f", "i", "l", "e", "1", ".", "0", "0", "0", "0", "0", "0", ".", "p", "a", "r", "t">>,
      <<"f", "i", "l", "e", "1", ".", "0", "0", "0", "0", "0", "1", ".", "p", "a", "r", "t">>,
      <<"f", "i", "l", "e", "2", ".", "0", "0", "0", "0", "0", "0", ".", "p", "a", "r", "t">>,
      <<"f", "i", "l", "e", "2", ".", "0", "0", "0", "0", "0", "1", ".", "p", "a", "r", "t">>>>

FilteredList ==
    <<<<"f", "i", "l", "e", ".", "0", "0", "0", "0", "0", "0", ".", "p", "a", "r", "t">>,
      <<"i", "n", "v", "a", "l", "i", "d", ".", "p", "a", "r", "t">>,
      <<"f", "i", "l", "e", ".", "0", "0", "0", "0", "0", "1", ".", "p", "a", "r", "t">>>>

ReportOtherList ==
    <<<<"o", "t", "h", "e", "r", ".", "0", "0", "0", "0", "0", "0", ".", "p", "a", "r", "t">>,
      <<"r", "e", "p", "o", "r", "t", ".", "0", "0", "0", "0", "0", "0", ".", "p", "a", "r", "t">>,
      <<"r", "e", "p", "o", "r", "t", ".", "0", "0", "0", "0", "0", "1", ".", "p", "a", "r", "t">>>>


Distinct(files) == \A j, k \in 1..Len(files) : j # k => files[j] # files[k]

GroupInputs ==
    {files \in UNION {[1..n -> GroupNames] : n \in 0..MaxGroupFiles} : Distinct(files)}
        \cup {SingleGroupList, MultipleGroupsList, FilteredList, ReportOtherList}

GroupInit ==
    /\ cfg = Nil
    /\ state = Nil
    /\ pc = "merger"
    /\ NoProcess
    /\ mu = NoHolder
    /\ th = <<>>
    /\ stateTmp = Nil
    /\ lastCall = Nil
    /\ rangeCall = Nil
    /\ dir = Nil
    /\ \E files \in GroupInputs : mg = [pc |-> "group", files |-> files, groups |-> NoGroups]

MergerFrame == UNCHANGED <<cfg, state, pc, diskVars, procVars, retVars, histVars, runs,
                           mu, th, stateTmp, lastCall, rangeCall>>

GroupFiles ==
    /\ pc = "merger"
    /\ mg.pc = "group"
    /\ mg' = [mg EXCEPT !.pc = "grouped", !.groups = groupFilesByBasename(mg.files)]
    /\ UNCHANGED dir
    /\ MergerFrame

GroupNext == GroupFiles

SpecGroup == GroupInit /\ [][GroupNext]_vars

(***************************************************************************)
(* state.go: GetChunkFilename, "%s.%06d.part".  The index is written in    *)
(* decimal, padded with zeros to PadWidth digits (6 in the code) and not   *)
(* cut when it has more.                                                   *)
(***************************************************************************)
PadWidth == 1         \* digits the chunk index is padded to

DigitAt == <<"0", "1", "2", "3", "4", "5", "6", "7", "8", "9">>

RECURSIVE Decimal(_)
Decimal(n) == IF n < 10 THEN <<DigitAt[n + 1]>> ELSE Decimal(n \div 10) \o <<DigitAt[(n % 10) + 1]>>

RECURSIVE ZeroPad(_, _)
ZeroPad(digits, width) == IF Len(digits) >= width THEN digits ELSE ZeroPad(<<"0">> \o digits, width)

GetChunkFilename(prefix, index) ==
    prefix \o <<".">> \o ZeroPad(Decimal(index), PadWidth) \o PartSuffix

(***************************************************************************)
(* merger.go: sort.Strings and filepath.Glob("*.part").                    *)
(***************************************************************************)
RECURSIVE Less(_, _)
\* a < b as Go compares strings: byte by byte, a proper prefix first
Less(a, b) ==
    IF b = <<>> THEN FALSE
    ELSE IF a = <<>> THEN TRUE
    ELSE IF Head(a) # Head(b) THEN Code(Head(a)) < Code(Head(b))
    ELSE Less(Tail(a), Tail(b))

RECURSIVE SortSet(_)
SortSet(names) ==
    IF names = {} THEN <<>>
    ELSE LET first == CHOOSE a \in names : \A b \in names \ {a} : Less(a, b)
         IN  <<first>> \o SortSet(names \ {first})

\* sort.Strings(filesToMerge)
SortStrings(names) == SortSet({names[k] : k \in 1..Len(names)})

HasPartSuffix(name) ==
    /\ Len(name) >= Len(PartSuffix)
    /\ SubSeq(name, Len(name) - Len(PartSuffix) + 1, Len(name)) = PartSuffix

\* filepath.Glob(m.config.Pattern) for the default pattern "*.part": the
\* names of the directory that end in .part, sorted
Glob(files) == SortSet({name \in DOMAIN files : HasPartSuffix(name)})

(***************************************************************************)
(* SpecMerge: Merger.Merge in a directory that holds the chunk files of    *)
(* one or two downloads (the artifacts of NewState plans, each holding the *)
(* bytes of its range), possibly a file stray.part, and the state file of  *)
(* the first download.  A step is a file operation of mergeGroup: creating *)
(* the .assembling file, copying one chunk file (and deleting it with      *)
(* --delete), closing and renaming.  Opening, copying, closing, renaming   *)
(* and deleting may fail.  A byte of a file is a number: its offset in the *)
(* resource, plus SecondTag for the second download.                       *)
(***************************************************************************)
MaxMergeTotal == 11   \* largest total size of the first download
SecondTotal == 3      \* total size of the second download
SecondChunk == 2      \* chunk size of the second download
SecondTag == 100      \* the bytes of the second download are SecondTag + offset
StrayByte == 200      \* the content of stray.part

MergeChunkSizes == {1, 3}

MergeTotals == {2, 5, MaxMergeTotal}

FirstPrefix == <<"f">>
SecondPrefix == <<"g">>
StrayName == <<"s", "t", "r", "a", "y", ".", "p", "a", "r", "t">>
OtherOutput == <<"o", "u", "t">>

AssemblingSuffix == <<".", "a", "s", "s", "e", "m", "b", "l", "i", "n", "g">>

TmpPathInPlace(outputName) == outputName

\* tmpPath := outputName + ".assembling"
TmpPath(outputName) == outputName \o AssemblingSuffix

\* stateFile := fmt.Sprintf(".%s-state.json", outputName)
StatePath(outputName) == <<".">> \o outputName \o <<"-", "s", "t", "a", "t", "e", ".", "j", "s", "o", "n">>

RangeBytes(start, end, tag) == [k \in 1..(end - start + 1) |-> tag + start + k - 1]

\* the .part files of a finished download, each with the bytes of its range
ArtifactsOf(s, tag) ==
    [name \in {GetChunkFilename(s.filenamePrefix, i) : i \in DOMAIN s.chunks} |->
        LET i == CHOOSE j \in DOMAIN s.chunks : GetChunkFilename(s.filenamePrefix, j) = name
        IN  RangeBytes(s.chunks[i].start, s.chunks[i].end, tag)]

FirstPlans ==
    {NewState(URL, total, chunk, FirstPrefix) : total \in MergeTotals, chunk \in MergeChunkSizes}

SecondPlan == NewState(OtherURL, SecondTotal, SecondChunk, SecondPrefix)

NoFiles == [name \in {} |-> <<>>]

Directories ==
    {ArtifactsOf(first, 0) @@ second @@ stray @@ (StatePath(FirstPrefix) :> <<>>) :
        first \in FirstPlans,
        second \in {NoFiles, ArtifactsOf(SecondPlan, SecondTag)},
        stray \in {NoFiles, (StrayName :> <<StrayByte>>)}}

\* merger.Config: Output ("" when -o is not given), Delete; Pattern is "*.part"
MergeConfigs == [output : {<<>>, FirstPrefix, OtherOutput}, delete : BOOLEAN]

NoMatchError == [op |-> "merge", index |-> Absent, cause |-> "no files match pattern"]
NoChunkFilesError == [op |-> "merge", index |-> Absent, cause |-> "no valid chunk files found"]
CreateError == [op |-> "merge", index |-> Absent, cause |-> "failed to create output file"]
OpenError == [op |-> "merge", index |-> Absent, cause |-> "failed to open"]
CopyError == [op |-> "merge", index |-> Absent, cause |-> "failed to copy"]
CloseError == [op |-> "merge", index |-> Absent, cause |-> "failed to close output file"]
RenameError == [op |-> "merge", index |-> Absent, cause |-> "failed to rename output file"]

\* fmt.Errorf("failed to merge %s: %w", basename, err)
GroupError(err) == [op |-> "merge group", index |-> Absent, cause |-> err.cause]

MergeInit ==
    /\ cfg = Nil
    /\ state = Nil
    /\ pc = "merger"
    /\ NoProcess
    /\ mu = NoHolder
    /\ th = <<>>
    /\ stateTmp = Nil
    /\ lastCall = Nil
    /\ rangeCall = Nil
    /\ dir \in Directories
    /\ \E config \in MergeConfigs :
           mg = [pc |-> "merge", config |-> config, dir0 |-> dir, groups |-> NoGroups,
                 queue |-> <<>>, multi |-> FALSE, outputName |-> <<>>, files |-> <<>>,
                 next |-> 1, merged |-> {}, failedGroup |-> <<>>, warned |-> {},
                 err |-> Nil]

MergeReturn(m, err) == [m EXCEPT !.pc = "returned", !.err = err]

\* Merge up to the first call of mergeGroup
MergeStart ==
    /\ pc = "merger"
    /\ mg.pc = "merge"
    /\ LET matches        == Glob(dir)
           basenameGroups == groupFilesByBasename(matches)
           grouped        == [mg EXCEPT !.groups = basenameGroups, !.pc = "group"]
       IN  mg' = IF matches = <<>> THEN MergeReturn(mg, NoMatchError)
                 ELSE IF mg.config.output # <<>>
                      THEN [grouped EXCEPT !.queue = <<mg.config.output>>]
                 ELSE IF DOMAIN basenameGroups = {}
                      THEN MergeReturn(grouped, NoChunkFilesError)
                 ELSE IF Cardinality(DOMAIN basenameGroups) = 1
                      THEN [grouped EXCEPT !.queue = SortSet(DOMAIN basenameGroups)]
                 ELSE [grouped EXCEPT !.queue = SortSet(DOMAIN basenameGroups),
                                      !.multi = TRUE]
    /\ UNCHANGED dir
    /\ MergerFrame

\* a failed mergeGroup: Merge returns its error, wrapped when it merges
\* several groups
GroupFailed(m, err) ==
    MergeReturn([m EXCEPT !.failedGroup = m.outputName],
                IF m.multi THEN GroupError(err) ELSE err)

FilesToMergeAll(outputName, basenameGroups, files) == Glob(files)

\* filesToMerge, found := basenameGroups[outputName]; every match of the
\* pattern when the name is no group
FilesToMerge(outputName, basenameGroups, files) ==
    IF outputName \in DOMAIN basenameGroups THEN basenameGroups[outputName] ELSE Glob(files)

\* mergeGroup: the files of the group, or every match when the name is no
\* group; sort.Strings; os.Create(tmpPath)
GroupStart ==
    /\ pc = "merger"
    /\ mg.pc = "group"
    /\ mg.queue # <<>>
    /\ LET outputName   == Head(mg.queue)
           filesToMerge == FilesToMerge(outputName, mg.groups, dir)
           started      == [mg EXCEPT !.outputName = outputName,
                                      !.queue = Tail(@),
                                      !.files = SortStrings(filesToMerge),
                                      !.next = 1]
       IN  \E created \in BOOLEAN :
               IF created
               THEN /\ mg' = [started EXCEPT !.pc = "copy"]
                    /\ dir' = [name \in DOMAIN dir \cup {TmpPath(outputName)} |->
                                 IF name = TmpPath(outputName) THEN <<>> ELSE dir[name]]
               ELSE /\ mg' = GroupFailed(started, CreateError)
                    /\ UNCHANGED dir
    /\ MergerFrame

Without(files, name) == [n \in DOMAIN files \ {name} |-> files[n]]

CopyOutcomes == {"copied", "open failed", "copy failed"}

\* one iteration of the loop over filesToMerge: mergeChunk, then os.Remove
\* of the chunk file with --delete (a failure to remove is only printed)
AfterAppendKeeps(appended, partPath, removed) == appended

\* if m.config.Delete { os.Remove(partPath) }
AfterAppend(appended, partPath, removed) ==
    IF mg.config.delete /\ removed THEN Without(appended, partPath) ELSE appended

\* fmt.Printf("Warning: failed to delete ...") when a removal that was asked
\* for failed
Warned(m, path, removed) ==
    IF m.config.delete /\ ~removed /\ path \in DOMAIN dir
    THEN [m EXCEPT !.warned = @ \cup {path}]
    ELSE m

MergeChunk ==
    /\ pc = "merger"
    /\ mg.pc = "copy"
    /\ mg.next <= Len(mg.files)
    /\ LET partPath == mg.files[mg.next]
           tmpPath  == TmpPath(mg.outputName)
       IN  \E outcome \in CopyOutcomes, removed \in BOOLEAN :
               IF outcome = "copied" /\ partPath \in DOMAIN dir
               THEN /\ mg' = Warned([mg EXCEPT !.next = @ + 1], partPath, removed)
                    /\ LET appended == [dir EXCEPT ![tmpPath] = @ \o dir[partPath]]
                       IN  dir' = AfterAppend(appended, partPath, removed)
               ELSE /\ mg' = GroupFailed(mg, IF outcome = "copy failed" /\ partPath \in DOMAIN dir
                                             THEN CopyError ELSE OpenError)
                    /\ dir' = Without(dir, tmpPath)
    /\ MergerFrame

FinishOutcomes == {"renamed", "close failed", "rename failed"}

\* after the loop: tmpFile.Close(), os.Rename(tmpPath, outputName), and with
\* --delete os.Remove of the state file; then the next group, if any
GroupFinish ==
    /\ pc = "merger"
    /\ mg.pc = "copy"
    /\ mg.next > Len(mg.files)
    /\ LET tmpPath == TmpPath(mg.outputName)
       IN  \E outcome \in FinishOutcomes, removed \in BOOLEAN :
               IF outcome = "renamed"
               THEN /\ LET done == Warned([mg EXCEPT !.merged = @ \cup {mg.outputName}],
                                            StatePath(mg.outputName), removed)
                       IN  mg' = IF mg.queue = <<>>
                                 THEN MergeReturn(done, Nil)
                                 ELSE [done EXCEPT !.pc = "group"]
                    /\ LET renamed == [name \in (DOMAIN dir \ {tmpPath}) \cup {mg.outputName} |->
                                          IF name = mg.outputName THEN dir[tmpPath] ELSE dir[name]]
                       IN  dir' = IF mg.config.delete /\ removed
                                  THEN Without(renamed, StatePath(mg.outputName))
                                  ELSE renamed
               ELSE /\ mg' = GroupFailed(mg, IF outcome = "close failed"
                                             THEN CloseError ELSE RenameError)
                    /\ dir' = Without(dir, tmpPath)
    /\ MergerFrame

MergeNext ==
    \/ MergeStart
    \/ GroupStart
    \/ MergeChunk
    \/ GroupFinish

SpecMerge == MergeInit /\ [][MergeNext]_vars

(***************************************************************************)
(* SpecResume: the chunk files of one download over successive runs of the *)
(* command in the same directory, with the bytes they hold.  A run is      *)
(* started with a chunk size and with or without --force; a step of a run  *)
(* is one pass of the attempt loop of downloadChunk for a chunk that is    *)
(* not complete, with MarkChunkCompleted and Save when it returns nil.     *)
(* The server answers a range request with 206 and the bytes of the range, *)
(* or with 200 and the whole resource from byte 0; a transfer may break    *)
(* off after any number of bytes.  A run may stop at any point (error,     *)
(* signal or kill); a run that completed every chunk deletes the state     *)
(* file.  A byte is its offset in the resource.                            *)
(***************************************************************************)
ResumeTotal == 4      \* size of the resource
SmallChunk == 2       \* the chunk sizes a run may be started with
LargeChunk == 4
ResumeRuns == 3       \* runs of the command

ResumeChunkSizes == {SmallChunk, LargeChunk}

\* fmt.Sprintf("%s.%06d.tmp", s.FilenamePrefix, index)
GetChunkTmpFilename(prefix, index) ==
    prefix \o <<".">> \o ZeroPad(Decimal(index), PadWidth) \o <<".", "t", "m", "p">>

\* os.Stat(path): the size of the file, Absent when there is none
SizeOf(files, path) == IF path \in DOMAIN files THEN Len(files[path]) ELSE Absent

BodyAlwaysRange(status, start, end, totalSize) == RangeBytes(start, end, 0)

\* resp.Body: the bytes of the range with 206, the whole resource with 200
ResponseBody(status, start, end, totalSize) ==
    IF status = 206 THEN RangeBytes(start, end, 0) ELSE RangeBytes(0, totalSize - 1, 0)

ResumeInit ==
    /\ cfg = [url |-> URL, totalSize |-> ResumeTotal, chunkSize |-> SmallChunk, force |-> FALSE]
    /\ state = Nil
    /\ pc = "shell"
    /\ NoProcess
    /\ mu = NoHolder
    /\ th = <<>>
    /\ stateTmp = Nil
    /\ lastCall = [chunkSizes |-> {}, statuses |-> {}]
    /\ rangeCall = Nil
    /\ dir = NoFiles
    /\ mg = Nil

ResumeFrame == UNCHANGED <<tmp, part, procVars, retVars, histVars, mu, th, stateTmp, rangeCall, mg>>

\* Download up to downloadAllChunks: LoadState unless Force, NewState when
\* there is no state; the URL and the size are those of the state file
ResumeDownload ==
    /\ pc = "shell"
    /\ runs < ResumeRuns
    /\ \E chunkSize \in ResumeChunkSizes, force \in BOOLEAN :
           LET loaded == IF ~force THEN stateFile ELSE Nil
               s1     == IF loaded = Nil
                         THEN NewState(cfg.url, cfg.totalSize, chunkSize, FirstPrefix)
                         ELSE loaded
           IN  /\ cfg' = [cfg EXCEPT !.chunkSize = chunkSize, !.force = force]
               /\ state' = s1
               /\ lastCall' = [lastCall EXCEPT !.chunkSizes = @ \cup {s1.chunkSize}]
    /\ runs' = runs + 1
    /\ pc' = "resume"
    /\ UNCHANGED <<stateFile, dir>>
    /\ ResumeFrame

\* one pass of the attempt loop of downloadChunk for chunk i, and, when it
\* returns nil, MarkChunkCompleted and Save (which may fail)
ResumeAttempt(i) ==
    /\ pc = "resume"
    /\ i \in DOMAIN state.chunks
    /\ NeedsDownload(state.chunks[i])
    /\ LET chunk    == state.chunks[i]
           tmpPath  == GetChunkTmpFilename(state.filenamePrefix, i)
           partPath == GetChunkFilename(state.filenamePrefix, i)
           open     == OpenChunkFile(SizeOf(dir, tmpPath), SizeOf(dir, partPath))
           from     == ResumeStart(chunk, open.currentSize)
           current  == IF tmpPath \in DOMAIN dir THEN dir[tmpPath] ELSE <<>>
           marked   == MarkChunkCompleted(state, i, chunk.end - chunk.start + 1)
       IN  \E status \in {200, 206}, n \in 0..(chunk.end - from + 1),
              renamed \in BOOLEAN, saved \in BOOLEAN :
               LET body     == ResponseBody(status, from, chunk.end, state.totalSize)
                   written  == current \o SubSeq(body, 1, n)
                   complete == n = chunk.end - from + 1
               IN  /\ (open.complete \/ from > chunk.end) => status = 206
                   /\ open.complete => renamed
                   /\ ~(complete /\ renamed) => saved
                   /\ IF open.complete
                      THEN UNCHANGED dir
                      ELSE IF complete /\ renamed
                      THEN dir' = (partPath :> written) @@ Without(dir, tmpPath)
                      ELSE dir' = (tmpPath :> written) @@ dir
                   /\ IF open.complete \/ (complete /\ renamed)
                      THEN /\ state' = marked
                           /\ stateFile' = IF saved THEN marked ELSE stateFile
                      ELSE UNCHANGED <<state, stateFile>>
                   /\ lastCall' = IF open.complete \/ from > chunk.end THEN lastCall
                                  ELSE [lastCall EXCEPT !.statuses = @ \cup {status}]
    /\ UNCHANGED <<cfg, pc, runs>>
    /\ ResumeFrame

\* the run ends before every chunk is complete: a fatal error or a kill
\* leaves the state file as it is, a signal makes DownloadCommand save it
ResumeStop ==
    /\ pc = "resume"
    /\ \E signal \in BOOLEAN : stateFile' = IF signal THEN state ELSE stateFile
    /\ state' = Nil
    /\ pc' = "shell"
    /\ UNCHANGED <<cfg, runs, dir, lastCall>>
    /\ ResumeFrame

\* every chunk is complete: Download deletes the state file and returns
ResumeFinish ==
    /\ pc = "resume"
    /\ \A i \in DOMAIN state.chunks : state.chunks[i].completed
    /\ stateFile' = Nil
    /\ state' = Nil
    /\ pc' = "shell"
    /\ UNCHANGED <<cfg, runs, dir, lastCall>>
    /\ ResumeFrame

ResumeNext ==
    \/ ResumeDownload
    \/ \E i \in 0..(ResumeTotal - 1) : ResumeAttempt(i)
    \/ ResumeStop
    \/ ResumeFinish

SpecResume == ResumeInit /\ [][ResumeNext]_vars

(***************************************************************************)
(* C1: for totalSize > 0 and chunkSize > 0 NewState builds exactly         *)
(* ceil(totalSize/chunkSize) chunks, chunk i spanning                      *)
(* [i*chunkSize, min((i+1)*chunkSize, totalSize) - 1]; the ranges start at *)
(* 0, are contiguous and end at totalSize - 1.                             *)
(***************************************************************************)
Ceil(a, b) == CHOOSE n \in 0..a : n * b >= a /\ (n - 1) * b < a

Min(a, b) == IF a < b THEN a ELSE b

C1_PlanCoversResource ==
    (pc = "planned" /\ cfg.totalSize > 0 /\ cfg.chunkSize > 0) =>
        LET n  == Ceil(cfg.totalSize, cfg.chunkSize)
            ch == state.chunks
        IN  /\ DOMAIN ch = 0..(n - 1)
            /\ n >= 1
            /\ \A i \in DOMAIN ch :
                 /\ ch[i].index = i
                 /\ ch[i].start = i * cfg.chunkSize
                 /\ ch[i].end = Min((i + 1) * cfg.chunkSize, cfg.totalSize) - 1
                 /\ ch[i].start <= ch[i].end
            /\ ch[0].start = 0
            /\ \A i \in 0..(n - 2) : ch[i].end + 1 = ch[i + 1].start
            /\ ch[n - 1].end = cfg.totalSize - 1
            /\ (cfg.totalSize = cfg.chunkSize => n = 1)

C1_Witness ==
    /\ pc = "planned"
    /\ cfg.totalSize = 2500 /\ cfg.chunkSize = 1000
    /\ Len0(state.chunks) = 3
    /\ <<state.chunks[0].start, state.chunks[0].end>> = <<0, 999>>
    /\ <<state.chunks[1].start, state.chunks[1].end>> = <<1000, 1999>>
    /\ <<state.chunks[2].start, state.chunks[2].end>> = <<2000, 2499>>

(***************************************************************************)
(* Properties of the scheduler (Spec).                                     *)
(***************************************************************************)
Chunks == state.chunks

AllComplete == \A i \in DOMAIN Chunks : Chunks[i].completed

\* the step sends a range request for chunk i on behalf of worker w
SendsRequest(w, i) ==
    /\ wk[w].pc # "fetching"
    /\ wk'[w].pc = "fetching"
    /\ wk'[w].work.index = i

\* the dispatcher hands chunk i to worker w in the step
Hands(w, i) ==
    /\ disp.i = i
    /\ disp'.i = i + 1
    /\ wk[w].pc = "idle"
    /\ wk'[w].pc # "idle" \/ wk'[w].work.index = i

\* a step of the running process (not the end or the start of a process)
InRun == pc \in {"run", "joined", "returned"} /\ pc' \in {"run", "joined", "returned", "exited"}

(***************************************************************************)
(* C2: Download returns success (and then deletes the persisted state)     *)
(* only when every chunk's transferComplete is true; a run that ends while *)
(* some chunk is not complete returns an error.                            *)
(***************************************************************************)
C2_SuccessOnlyWhenAllComplete ==
    (pc = "exited" /\ ~AllComplete) => retDownload # Nil

(***************************************************************************)
(* C3: on every fetch attempt for a chunk whose partial artifact holds k   *)
(* bytes, the range requested is exactly [start+k, end].                   *)
(***************************************************************************)
PartialBytes(i) == IF tmp[i] = Absent THEN 0 ELSE tmp[i]

C3_ResumeRange ==
    [][\A w \in Workers : \A i \in ChunkIdx :
          SendsRequest(w, i) =>
              wk'[w].req = <<Chunks[i].start + PartialBytes(i), Chunks[i].end>>]_vars

\* a first attempt of a second run resumes a partial artifact of one byte
C3_Witness ==
    \E w \in Workers :
        /\ wk[w].pc = "fetching"
        /\ runs = 2
        /\ wk[w].attempt = 0
        /\ LET i == wk[w].work.index
           IN  /\ tmp[i] = 1
               /\ wk[w].req = <<Chunks[i].start + 1, Chunks[i].end>>

(***************************************************************************)
(* C4: if the complete (.part) artifact of a chunk exists when the chunk   *)
(* is processed, no range request is sent for it and the chunk is treated  *)
(* as done (downloadChunk returns nil), whether or not the persisted state *)
(* records the chunk as complete.                                          *)
(***************************************************************************)
C4_CompleteArtifactNoRequest ==
    [][\A w \in Workers : \A i \in ChunkIdx :
          part[i] # Absent =>
              /\ ~SendsRequest(w, i)
              /\ (InRun /\ wk[w].pc = "attempt" /\ wk[w].work.index = i /\ wk'[w] # wk[w])
                     => (wk'[w].pc = "mark" /\ tmp' = tmp /\ part' = part)]_vars

\* second run, state file lost, the .part of a chunk exists: the worker has
\* taken the chunk and goes on to mark it without a request
C4_Witness ==
    \E w \in Workers :
        /\ runs = 2
        /\ stateFile = Nil
        /\ wk[w].pc = "mark"
        /\ wk[w].skipped
        /\ wk[w].req = <<>>
        /\ part[wk[w].work.index] # Absent
        /\ ~Chunks[wk[w].work.index].completed

(***************************************************************************)
(* C5: when a chunk exhausts its retries, the context is cancelled as its  *)
(* worker reports the error, no further chunk is dispatched after that,    *)
(* and downloadAllChunks returns that chunk's error, after all download    *)
(* workers have exited.                                                    *)
(***************************************************************************)
ExhaustedError(i) == ChunkError(i, RetriesExhausted(TransferError))

\* the worker that gave up on chunk i has reported and exited
GaveUpAndExited ==
    /\ failed # {}
    /\ \A w \in Workers : ~(wk[w].pc = "report" /\ wk[w].err = RetriesExhausted(TransferError))

C5_FatalErrorCancelsAndIsReturned ==
    [][/\ (GaveUpAndExited /\ pc \in {"run", "joined", "returned"} => ctxDone)'
       /\ GaveUpAndExited /\ InRun => \A w \in Workers : \A i \in ChunkIdx : ~Hands(w, i)
       /\ (pc \in {"returned", "exited"} /\ failed # {} =>
               /\ \E i \in failed : retAll = ExhaustedError(i)
               /\ AllWorkersExited)']_vars

(***************************************************************************)
(* C6 (as stated): after a run ends with a fatal chunk failure, the run    *)
(* has returned an error, the state file exists and it records as complete *)
(* every chunk marked complete in the run; and no step of the run after    *)
(* the failure removes or shortens an artifact of any chunk.               *)
(***************************************************************************)
EndedWithFatalFailure == pc = "exited" /\ failed # {}

\* bytes of chunk i on disk, in its .part or in its .tmp
OnDisk(i) == IF part[i] # Absent THEN part[i] ELSE PartialBytes(i)

Recorded(i) == stateFile # Nil /\ stateFile.chunks[i].completed

C7_InterruptIsCleanStop ==
    (pc = "exited" /\ sigInt /\ retDownload # Nil /\ retDownload.cause = "context canceled")
        => (retCmd = Nil /\ stateFile = state)

(***************************************************************************)
(* C8: a MarkChunkCompleted call for an out-of-range index, or for a chunk *)
(* that is already complete, changes nothing of the State; the first call  *)
(* for a chunk marks it, sets its downloaded bytes, adds exactly one to    *)
(* completedCount and leaves the other chunks alone.                       *)
(***************************************************************************)
C8_MarkChunkCompletedIdempotent ==
    [][lastCall'.op = "MarkChunkCompleted" =>
          LET i == lastCall'.index
          IN  IF InRange(state, i) /\ ~state.chunks[i].completed
              THEN /\ state'.completedCount = state.completedCount + 1
                   /\ state'.chunks[i] = [state.chunks[i] EXCEPT
                                             !.completed = TRUE,
                                             !.downloaded = lastCall'.downloaded]
                   /\ \A j \in DOMAIN state.chunks \ {i} : state'.chunks[j] = state.chunks[j]
              ELSE state' = state]_vars

\* a second MarkChunkCompleted for the only complete chunk, with another
\* downloaded argument, has left the count at one and the bytes as they were
C8_Witness ==
    /\ pc = "api"
    /\ lastCall # Nil
    /\ lastCall.op = "MarkChunkCompleted"
    /\ lastCall.again
    /\ state.completedCount = 1
    /\ state.chunks[lastCall.index].downloaded # lastCall.downloaded

(***************************************************************************)
(* C9: whenever the State can be read (the mutex is free, or its holder is *)
(* about to read it), completedCount is the number of chunks marked        *)
(* complete; the same holds of every snapshot Save marshals, writes or     *)
(* renames into place.                                                     *)
(***************************************************************************)
Consistent(s) ==
    s.completedCount = Cardinality({i \in DOMAIN s.chunks : s.chunks[i].completed})

C9_CountMatchesCompleted ==
    pc = "threads" =>
        /\ mu = NoHolder => Consistent(state)
        /\ \A t \in Callers :
               /\ th[t].pc = "body" /\ mu = t => Consistent(state)
               /\ th[t].data # Nil => Consistent(th[t].data)
        /\ stateTmp \notin {Nil, Partial} => Consistent(stateTmp)
        /\ stateFile # Nil => Consistent(stateFile)

\* a Save has put a snapshot with one complete chunk in place while another
\* goroutine, waiting for the mutex, is about to mark a second chunk
C9_Witness ==
    /\ pc = "threads"
    /\ stateFile # Nil
    /\ stateFile.completedCount = 1
    /\ \E t \in Callers : th[t].op = "Save" /\ th[t].pc = "unlock" /\ mu = t
    /\ \E t \in Callers : th[t].op = "MarkChunkCompleted" /\ th[t].pc = "lock"
                          /\ InRange(state, th[t].index)
                          /\ ~state.chunks[th[t].index].completed

(***************************************************************************)
(* C10: in a run, no step of the scheduler or of the hook pipeline changes *)
(* a chunk's start or end, decreases its downloaded bytes, or resets its   *)
(* completed or postPartCompleted flag.                                    *)
(***************************************************************************)
C10_ChunkFieldsMonotone ==
    [][InRun =>
          \A i \in ChunkIdx :
              /\ Chunks[i].start' = Chunks[i].start
              /\ Chunks[i].end' = Chunks[i].end
              /\ Chunks[i].downloaded' >= Chunks[i].downloaded
              /\ Chunks[i].completed => Chunks[i].completed'
              /\ Chunks[i].postPartCompleted => Chunks[i].postPartCompleted']_vars

\* a hook worker is about to record the outcome of the hook of a complete
\* chunk while another chunk already has its hook recorded as done
C10_Witness ==
    \E h \in HookWorkers :
        /\ hk[h].pc = "running"
        /\ Chunks[hk[h].index].completed
        /\ Chunks[hk[h].index].downloaded > 0
        /\ \E j \in ChunkIdx : Chunks[j].postPartCompleted

(***************************************************************************)
(* C11: at every moment of a run, at most MaxConcurrency chunks are inside *)
(* downloadChunk (opening or resuming the partial artifact, waiting for a  *)
(* retry, or fetching).                                                    *)
(***************************************************************************)
InDownloadChunk == {w \in Workers : wk[w].pc \in {"attempt", "backoff", "fetching"}}

C11_AtMostConcurrencyInFlight ==
    /\ Cardinality(InDownloadChunk) <= cfg.maxConcurrency
    /\ Cardinality({wk[w].work.index : w \in InDownloadChunk}) <= cfg.maxConcurrency

\* --jobs 1 of a possible 2: one chunk is being fetched while the dispatcher
\* waits with the next chunk, which needs a download
C11_Witness ==
    /\ pc = "run"
    /\ cfg.maxConcurrency < MaxConcurrency
    /\ Cardinality({w \in Workers : wk[w].pc = "fetching"}) = cfg.maxConcurrency
    /\ DispAtChunk
    /\ NeedsDownload(state.chunks[disp.i])

(***************************************************************************)
(* C12: in a run no two workers hold the same chunk index; a worker gets   *)
(* an index only from the dispatcher, which then moves past that index and *)
(* never goes back, so an index is handed over at most once per run; and   *)
(* whenever the .tmp or .part file of a chunk changes, exactly one worker  *)
(* holds that chunk.                                                       *)
(***************************************************************************)
Holders(i) == {w \in Workers : wk[w].work.index = i}

C12_OneWorkerPerChunk ==
    [][InRun =>
          /\ \A i \in ChunkIdx : Cardinality(Holders(i))' <= 1
          /\ disp'.i >= disp.i
          /\ \A w \in Workers :
                 (wk'[w].work.index # wk[w].work.index /\ wk'[w].work.index # Absent)
                     => (wk'[w].work.index = disp.i /\ disp'.i > disp.i)
          /\ \A i \in ChunkIdx :
                 (tmp'[i] # tmp[i] \/ part'[i] # part[i]) => Cardinality(Holders(i)) = 1]_vars

\* two workers are fetching two different chunks, one of them on a retry
\* that resumes a partial artifact
C12_Witness ==
    \E w1, w2 \in Workers :
        /\ wk[w1].pc = "fetching" /\ wk[w2].pc = "fetching"
        /\ wk[w1].work.index # wk[w2].work.index
        /\ wk[w1].attempt > 0
        /\ tmp[wk[w1].work.index] > 0
        /\ tmp[wk[w2].work.index] = 0

(***************************************************************************)
(* C13 (as stated): a call of downloadChunk sends at most 1 + MaxRetries   *)
(* requests; a failed request without cancellation is followed by a retry  *)
(* while retries are left and by the fatal error of the chunk after the    *)
(* last one; and a call whose requests all failed never returns success.   *)
(***************************************************************************)
\* DownloadRange returned an error (a transfer that ended well and could
\* not be finalized is not a failed fetch)
FetchFails(w) ==
    /\ wk[w].pc = "fetching"
    /\ wk'[w].pc # "fetching"
    /\ part'[wk[w].work.index] = Absent
    /\ wk'[w].err # FinalizeError

BoundedRetries(w) ==
    /\ wk'[w].attempt <= cfg.maxRetries
    /\ (FetchFails(w) /\ ~ctxDone) =>
           IF wk[w].attempt < cfg.maxRetries
           THEN wk'[w].pc = "backoff" /\ wk'[w].attempt = wk[w].attempt + 1
           ELSE wk'[w].pc = "report" /\ wk'[w].err = RetriesExhausted(TransferError)

\* downloadChunk returns nil after a failed request of the same call
SuccessAfterFailure(w) == wk[w].pc = "backoff" /\ wk'[w].pc = "mark"

C13_Original ==
    [][InRun => \A w \in Workers : BoundedRetries(w) /\ ~SuccessAfterFailure(w)]_vars

(***************************************************************************)
(* C13 (amended): as above, except that the call returns success without   *)
(* a further request when a failed request had already written the last    *)
(* byte of the chunk to the partial artifact.                              *)
(***************************************************************************)
ChunkLen(i) == Chunks[i].end - Chunks[i].start + 1

C13_BoundedRetriesThenFatal ==
    [][InRun =>
          \A w \in Workers :
              /\ BoundedRetries(w)
              /\ SuccessAfterFailure(w) =>
                     /\ tmp[wk[w].work.index] = ChunkLen(wk[w].work.index)
                     /\ part'[wk[w].work.index] = ChunkLen(wk[w].work.index)
                     /\ wk'[w].req = <<>>]_vars

\* a worker gave up on a chunk after the last retry, without cancellation,
\* leaving a partial artifact that is not complete
C13_Witness ==
    \E w \in Workers :
        /\ wk[w].pc = "report"
        /\ wk[w].err = RetriesExhausted(TransferError)
        /\ ~ctxDone
        /\ wk[w].work.index \in failed
        /\ tmp[wk[w].work.index] > 0
        /\ tmp[wk[w].work.index] < ChunkLen(wk[w].work.index)

(***************************************************************************)
(* C14: Save writes the data to the temporary file and renames it over the *)
(* state file; the state file never holds partial data, whatever step the  *)
(* process dies at and whoever calls Save concurrently, and it only ever   *)
(* changes, by the rename, to the complete snapshot of the State that the  *)
(* Save holding the mutex has marshalled and written to the temporary file.*)
(***************************************************************************)
C14_SaveIsAtomic ==
    [][/\ stateFile' # Partial
       /\ stateFile' # stateFile =>
              \E t \in Callers :
                  /\ At(t, "Save", "rename")
                  /\ mu = t
                  /\ th[t].data = state
                  /\ stateTmp = th[t].data
                  /\ stateFile' = th[t].data]_vars

\* the process died while a Save was writing a newer State: the temporary
\* file is partial and the state file still holds the previous snapshot
C14_Witness ==
    /\ pc = "crashed"
    /\ stateTmp = Partial
    /\ stateFile \notin {Nil, Partial}
    /\ stateFile.completedCount = 1
    /\ state.completedCount = 2

(***************************************************************************)
(* C15: when Force is not set and the state file found by Download has     *)
(* another URL or another total size than the request, Download returns    *)
(* the mismatch error without starting a worker or handing out a chunk,    *)
(* and leaves the state file and every artifact as they were; the run      *)
(* stays like that until the command is run again.                         *)
(***************************************************************************)
FoundMismatch ==
    /\ ~cfg.force
    /\ stateFile # Nil
    /\ stateFile.url # cfg.url \/ stateFile.totalSize # cfg.totalSize

Untouched ==
    /\ \A w \in Workers : wk[w] = WorkerAt("none")
    /\ \A h \in HookWorkers : hk[h].pc = "none"
    /\ disp.i = 0

C15_MismatchFailsBeforeDispatch ==
    [][(pc \in {"start", "exited"} /\ FoundMismatch /\ pc' # "start") =>
          /\ pc' = "exited"
          /\ retDownload' = MismatchError
          /\ retCmd' = MismatchError
          /\ Untouched'
          /\ UNCHANGED <<stateFile, tmp, part>>]_vars

\* the second run has failed on a state file of another total size, with a
\* complete artifact and a partial artifact of the first run still on disk
C15_Witness ==
    /\ pc = "exited"
    /\ runs = 2
    /\ retDownload = MismatchError
    /\ stateFile # Nil
    /\ stateFile.totalSize # cfg.totalSize
    /\ \E i \in ChunkIdx : part[i] # Absent
    /\ \E i \in ChunkIdx : tmp[i] # Absent /\ tmp[i] > 0

(***************************************************************************)
(* C16: a download whose chunk size or total size is not positive ends in  *)
(* an input-validation error: NewState is never reached with such sizes,   *)
(* so the process does not panic, no chunk plan is built and no completion *)
(* is printed.                                                             *)
(***************************************************************************)
InvalidSizes == cfg.chunkSize <= 0 \/ cfg.totalSize <= 0

ValidationErrors == {NoHeadError, ContentLengthError}

C16_InvalidSizesRejected ==
    (pc \in {"planned", "panicked", "fetch", "complete", "exited"} /\ InvalidSizes) =>
        /\ pc = "exited"
        /\ retCmd \in ValidationErrors
        /\ state = Nil

(***************************************************************************)
(* C17: DownloadRange writes at most end-start+1 bytes to the sink and     *)
(* returns success only if exactly end-start+1 bytes were written; a       *)
(* status other than 206/200 is an error; when the response stream ends    *)
(* (io.EOF) before end-start+1 bytes were received the call returns an     *)
(* error, which is the incomplete-download error unless the sink failed    *)
(* on the last bytes read, in which case it is the write error.            *)
(***************************************************************************)
RangeReturned == pc = "range" /\ rangeCall.pc = "returned"

EndedEarly == rangeCall.eof /\ rangeCall.totalRead < expectedBytes(rangeCall)

WritesAtMostRange == pc = "range" => rangeCall.written <= expectedBytes(rangeCall)

SuccessIsExact ==
    (RangeReturned /\ rangeCall.err = Nil) => rangeCall.written = expectedBytes(rangeCall)

OtherStatusIsError ==
    (RangeReturned /\ rangeCall.status # 0 /\ ~StatusAccepted(rangeCall.status)) =>
        /\ rangeCall.err = UnexpectedStatus
        /\ rangeCall.written = 0

\* C17 as stated: a stream that ends early always gives the incomplete-download
\* error
C17_Original ==
    /\ WritesAtMostRange
    /\ SuccessIsExact
    /\ OtherStatusIsError
    /\ (RangeReturned /\ EndedEarly) => rangeCall.err = IncompleteDownload

C17_RangeIsExactOrError ==
    /\ WritesAtMostRange
    /\ SuccessIsExact
    /\ OtherStatusIsError
    /\ (RangeReturned /\ EndedEarly) =>
           /\ rangeCall.err \in {IncompleteDownload, WriteFailed}
           /\ rangeCall.written = rangeCall.totalRead => rangeCall.err = IncompleteDownload

\* a stream that ended after some, but not all, bytes of the range, all of them
\* written to the sink
C17_Witness ==
    /\ RangeReturned
    /\ EndedEarly
    /\ rangeCall.written > 0
    /\ rangeCall.written = rangeCall.totalRead
    /\ rangeCall.err = IncompleteDownload

(***************************************************************************)
(* C18: within one run the post-part command is executed at most once for  *)
(* each chunk index, an index is sent to postPartCh at most once, and the  *)
(* chunk of an index is marked completed when the index is sent.           *)
(***************************************************************************)
Submits(i) ==
    /\ Len(postPartCh') = Len(postPartCh) + 1
    /\ postPartCh'[Len(postPartCh')] = i

C18_HookOncePerCompletedChunk ==
    [][\A i \in ChunkIdx :
          /\ hookRuns'[i] <= 1
          /\ Submits(i) =>
                 /\ Chunks[i].completed
                 /\ hookRuns[i] = 0
                 /\ \A k \in 1..Len(postPartCh) : postPartCh[k] # i]_vars

\* the command has run once for every chunk and the run is over
C18_Witness ==
    /\ pc = "returned"
    /\ \A i \in ChunkIdx : hookRuns[i] = 1 /\ Chunks[i].completed

(***************************************************************************)
(* C19: when the post-part command of a chunk fails, the chunk is marked   *)
(* postPartCompleted = false and after the Save that follows the state     *)
(* file records it so; neither step cancels the context, writes errChan,   *)
(* moves a download worker, changes completed or downloaded of a chunk or  *)
(* the completed count, or sets a return value; and errChan is written     *)
(* only by a download worker that reports an error.                        *)
(***************************************************************************)
CompletedCount(s) == Cardinality({i \in DOMAIN s.chunks : s.chunks[i].completed})

HookFails(h) == hk[h].pc = "running" /\ hk'[h].pc = "save" /\ hk'[h].cmdErr

HookFailureSaved(h) == hk[h].pc = "save" /\ hk[h].cmdErr /\ hk'[h].pc = "idle"

TransferUntouched ==
    /\ \A i \in DOMAIN Chunks :
           /\ Chunks'[i].completed = Chunks[i].completed
           /\ Chunks'[i].downloaded = Chunks[i].downloaded
    /\ CompletedCount(state') = CompletedCount(state)
    /\ UNCHANGED <<wk, disp, ctxDone, errChan, retVars, pc>>

C19_HookFailureIsNotFatal ==
    [][/\ \A h \in HookWorkers :
              /\ HookFails(h) =>
                     /\ ~Chunks'[hk[h].index].postPartCompleted
                     /\ TransferUntouched
              /\ HookFailureSaved(h) =>
                     /\ stateFile' # Nil
                     /\ ~stateFile'.chunks[hk[h].index].postPartCompleted
                     /\ stateFile'.chunks[hk[h].index].completed
                     /\ TransferUntouched
       /\ (errChan' # errChan /\ errChan' # <<>>) => \E w \in Workers : wk[w].pc = "report"]_vars

\* a run in which the command failed for a chunk and which ended without error,
\* all chunks complete
C19_Witness ==
    /\ pc = "exited"
    /\ retAll = Nil /\ retDownload = Nil /\ retCmd = Nil
    /\ AllComplete
    /\ \E i \in ChunkIdx : hookRuns[i] = 1 /\ ~Chunks[i].postPartCompleted

(***************************************************************************)
(* C20: in a run with a post-part command that loaded a state file, a      *)
(* chunk loaded as completed without post-part is handed to a worker only  *)
(* for the post-part hand-off, never for a download; an index is sent to   *)
(* postPartCh only while its chunk is not postPartCompleted; and when      *)
(* downloadAllChunks returns nil in a run that was not interrupted, the    *)
(* command has run once for every chunk loaded as completed without        *)
(* post-part.                                                              *)
(***************************************************************************)
\* a worker holding a chunk loaded as completed without post-part is at the
\* hand-off to postPartCh and its item does not ask for a download
NotFetchedAgain ==
    \A w \in Workers :
        wk[w].work.index \in pending =>
            /\ ~wk[w].work.needsDownload
            /\ wk[w].pc = "hooksend"

\* no index of a chunk with postPartCompleted = true is sent to postPartCh
NoneResubmitted == \A i \in ChunkIdx : Submits(i) => ~Chunks[i].postPartCompleted

AllPendingHooked == \A i \in pending : hookRuns[i] = 1

AtHandOff(w) == pc \in {"run", "joined"} /\ wk[w].pc = "hooksend"

\* chunk indexes on postPartCh, with the post-part workers or done with
HookLoad(i) ==
    Cardinality({k \in 1..Len(postPartCh) : postPartCh[k] = i}) + hookRuns[i]

C21_HandOffNeverBlocks ==
    /\ \A w \in Workers : AtHandOff(w) => Len(postPartCh) < PostPartCap(state)
    /\ \A i \in ChunkIdx : HookLoad(i) <= 1
    /\ state # Nil => Len(postPartCh) <= PostPartCap(state)

\* the buffer holds all indexes but one, no post-part worker has received
\* yet, and a worker is at the hand-off with the last index
C21_Witness ==
    /\ \E w \in Workers : AtHandOff(w)
    /\ Len(postPartCh) = Len0(Chunks) - 1
    /\ Len(postPartCh) >= 2
    /\ \A i \in ChunkIdx : hookRuns[i] = 0

SplitsAt(name, nb) ==
    /\ nb >= 1
    /\ Len(name) >= nb + 2 + Len(PartSuffix)
    /\ name[nb + 1] = "."
    /\ \A k \in (nb + 2)..(Len(name) - Len(PartSuffix)) : name[k] \in Digits
    /\ \A k \in 1..Len(PartSuffix) : name[Len(name) - Len(PartSuffix) + k] = PartSuffix[k]

HasShape(file) == \E nb \in 1..Len(Base(file)) : SplitsAt(Base(file), nb)

ShapeBasenames(file) ==
    {SubSeq(Base(file), 1, nb) : nb \in {n \in 1..Len(Base(file)) : SplitsAt(Base(file), n)}}

Members(group) == {group[k] : k \in 1..Len(group)}

\* the files of the list that are in the group, in the order of the list
RECURSIVE Chosen(_, _)
Chosen(files, members) ==
    IF files = <<>> THEN <<>>
    ELSE IF Head(files) \in members THEN <<Head(files)>> \o Chosen(Tail(files), members)
    ELSE Chosen(Tail(files), members)

C23_GroupsByBasename ==
    (pc = "merger" /\ mg.pc = "grouped" /\ "files" \in DOMAIN mg) =>
        /\ \A k \in 1..Len(mg.files) :
               LET file == mg.files[k]
               IN  IF HasShape(file)
                   THEN /\ Cardinality(ShapeBasenames(file)) = 1
                        /\ \A b \in ShapeBasenames(file) :
                               /\ b \in DOMAIN mg.groups
                               /\ file \in Members(mg.groups[b])
                        /\ \A g \in DOMAIN mg.groups :
                               file \in Members(mg.groups[g]) => g \in ShapeBasenames(file)
                   ELSE \A g \in DOMAIN mg.groups : file \notin Members(mg.groups[g])
        /\ \A g \in DOMAIN mg.groups :
               /\ mg.groups[g] # <<>>
               /\ mg.groups[g] = Chosen(mg.files, Members(mg.groups[g]))

\* report.000000.part, report.000001.part and other.000000.part: two groups,
\* report with two files and other with one
C23_Witness ==
    /\ pc = "merger" /\ mg.pc = "grouped" /\ "files" \in DOMAIN mg
    /\ mg.files = ReportOtherList
    /\ DOMAIN mg.groups = {<<"r", "e", "p", "o", "r", "t">>, <<"o", "t", "h", "e", "r">>}
    /\ Len(mg.groups[<<"r", "e", "p", "o", "r", "t">>]) = 2
    /\ Len(mg.groups[<<"o", "t", "h", "e", "r">>]) = 1

(***************************************************************************)
(* C24: when Merge has returned after merging several groups (no output    *)
(* name given), every group other than the one that failed has been        *)
(* merged into its own output.                                             *)
(***************************************************************************)
MergeReturned == pc = "merger" /\ mg.pc = "returned"

C24_GroupsMergedIndependently ==
    (MergeReturned /\ mg.multi) =>
        \A g \in DOMAIN mg.groups :
            g # mg.failedGroup => (g \in mg.merged /\ g \in DOMAIN dir)

(***************************************************************************)
(* C25: when the merge of a group has failed, the .assembling file does    *)
(* not exist, no file exists under the output name, and every file of the  *)
(* group exists with the content it had before the merge, with and without *)
(* --delete.                                                               *)
(***************************************************************************)
GroupHasFailed == MergeReturned /\ mg.failedGroup # <<>>

SourcesIntact ==
    \A k \in 1..Len(mg.files) :
        /\ mg.files[k] \in DOMAIN dir
        /\ dir[mg.files[k]] = mg.dir0[mg.files[k]]

C25_FailedMergeLeavesSources ==
    GroupHasFailed =>
        /\ (mg.failedGroup \o AssemblingSuffix) \notin DOMAIN dir
        /\ mg.failedGroup \notin DOMAIN dir
        /\ SourcesIntact

(***************************************************************************)
(* C26: a file under an output name comes into existence only by the       *)
(* rename of the .assembling file of that name, after the loop over the    *)
(* files of the group, with the contents of all these files one after the  *)
(* other; it is not written afterwards.  The only other file a merge       *)
(* creates is an empty .assembling file.                                   *)
(***************************************************************************)
RECURSIVE ConcatFiles(_, _)
ConcatFiles(names, files) ==
    IF names = <<>> THEN <<>> ELSE files[Head(names)] \o ConcatFiles(Tail(names), files)

IsAssembling(name) ==
    /\ Len(name) > Len(AssemblingSuffix)
    /\ SubSeq(name, Len(name) - Len(AssemblingSuffix) + 1, Len(name)) = AssemblingSuffix

C26_OutputOnlyByRename ==
    [][/\ \A name \in DOMAIN dir' \ DOMAIN dir :
              IF IsAssembling(name) THEN dir'[name] = <<>>
              ELSE /\ mg.pc = "copy"
                   /\ name = mg.outputName
                   /\ mg.next > Len(mg.files)
                   /\ (name \o AssemblingSuffix) \in DOMAIN dir
                   /\ (name \o AssemblingSuffix) \notin DOMAIN dir'
                   /\ dir'[name] = dir[name \o AssemblingSuffix]
                   /\ dir'[name] = ConcatFiles(mg.files, mg.dir0)
       /\ \A name \in DOMAIN dir \cap DOMAIN dir' :
              ~IsAssembling(name) => dir'[name] = dir[name]]_vars

\* two groups merged with --delete: both outputs exist, no chunk file is left
C26_Witness ==
    /\ MergeReturned
    /\ mg.err = Nil
    /\ mg.multi
    /\ mg.config.delete
    /\ mg.merged = {FirstPrefix, SecondPrefix}
    /\ {FirstPrefix, SecondPrefix} \subseteq DOMAIN dir
    /\ \A name \in DOMAIN dir : extractBasename(name) = <<>>

(***************************************************************************)
(* C27: when the group of a download whose chunk files hold the bytes of   *)
(* their ranges has been merged, the output holds the totalSize bytes of   *)
(* the resource in their order.                                            *)
(***************************************************************************)
\* the plan whose chunk files are in the directory
FirstPlanOf(files) ==
    CHOOSE plan \in FirstPlans :
        /\ DOMAIN ArtifactsOf(plan, 0) = {name \in DOMAIN files : extractBasename(name) = FirstPrefix}
        /\ \A name \in DOMAIN ArtifactsOf(plan, 0) : files[name] = ArtifactsOf(plan, 0)[name]

FirstGroupMerged ==
    /\ pc = "merger"
    /\ FirstPrefix \in mg.merged
    /\ FirstPrefix \in DOMAIN mg.groups

C27_MergeRoundTrip ==
    FirstGroupMerged =>
        dir[FirstPrefix] = RangeBytes(0, FirstPlanOf(mg.dir0).totalSize - 1, 0)

(***************************************************************************)
(* C28: after a successful Merge with an output name that is the basename  *)
(* of chunk files in the directory, the output holds the contents of these *)
(* files and of no other; with an output name that is no such basename, it *)
(* holds the contents of all files ending in .part; without an output name *)
(* and with one basename in the directory, the output is named by that     *)
(* basename.  The contents follow each other in the order of the names.    *)
(***************************************************************************)
Basenames(files) == UNION {ShapeBasenames(name) : name \in {n \in DOMAIN files : HasShape(n)}}

FilesOf(basename, files) ==
    {name \in DOMAIN files : HasShape(name) /\ basename \in ShapeBasenames(name)}

PartFiles(files) == {name \in DOMAIN files : HasPartSuffix(name)}

MergeSucceeded == MergeReturned /\ mg.err = Nil

C28_OutputNameSelectsFiles ==
    MergeSucceeded =>
        LET output == mg.config.output
            found  == Basenames(mg.dir0)
        IN  /\ (output # <<>> /\ output \in found) =>
                   /\ dir[output] = ConcatFiles(SortSet(FilesOf(output, mg.dir0)), mg.dir0)
                   /\ DOMAIN dir \ DOMAIN mg.dir0 = {output}
            /\ (output # <<>> /\ output \notin found) =>
                   /\ dir[output] = ConcatFiles(SortSet(PartFiles(mg.dir0)), mg.dir0)
                   /\ DOMAIN dir \ DOMAIN mg.dir0 = {output}
            /\ (output = <<>> /\ Cardinality(found) = 1) =>
                   \A b \in found :
                       /\ DOMAIN dir \ DOMAIN mg.dir0 = {b}
                       /\ dir[b] = ConcatFiles(SortSet(FilesOf(b, mg.dir0)), mg.dir0)

\* -o f in a directory that also holds the chunk files of g and stray.part
C28_Witness ==
    /\ MergeSucceeded
    /\ mg.config.output = FirstPrefix
    /\ Basenames(mg.dir0) = {FirstPrefix, SecondPrefix}
    /\ StrayName \in DOMAIN mg.dir0
    /\ Len(dir[FirstPrefix]) >= 2


(***************************************************************************)
(* C29: with Force set, Download does not load the persisted state, starts *)
(* from a fresh plan with no chunk marked complete, and fetches every      *)
(* chunk again: the first attempt at a chunk sends a request for the whole *)
(* range of the chunk, whatever .part or .tmp file an earlier run left.    *)
(***************************************************************************)
FreshPlan == NewState(cfg.url, cfg.totalSize, cfg.chunkSize, Prefix)

StartsFresh == (pc = "start" /\ pc' = "run") => state' = FreshPlan

FirstAttempt(w) == Running /\ ~ctxDone /\ wk[w].pc = "attempt" /\ wk'[w] # wk[w]

FetchesWhole(w) ==
    /\ wk'[w].pc = "fetching"
    /\ wk'[w].req = <<ChunkOf(w).start, ChunkOf(w).end>>

C29_ForceFetchesEverythingAgain ==
    [][cfg.force =>
          /\ StartsFresh
          /\ \A w \in Workers : FirstAttempt(w) => FetchesWhole(w)]_vars


(***************************************************************************)
(* C30: the indexes sent on workChan are strictly ascending; a worker      *)
(* receives exactly the index the dispatcher sends; a chunk that is        *)
(* complete with no post-part command pending is never sent.  Chunks may   *)
(* complete in any order.                                                  *)
(***************************************************************************)
Ascending(seq) == \A j, k \in 1..Len(seq) : j < k => seq[j] < seq[k]

Takes(w, i) ==
    /\ wk[w].pc = "idle"
    /\ wk'[w].pc \in {"attempt", "hooksend"}
    /\ wk'[w].work.index = i

HasWork(chunk) ==
    \/ ~chunk.completed
    \/ cfg.postPartCmd /\ ~chunk.postPartCompleted

C30_DispatchAscending ==
    [][/\ Ascending(disp'.sent)
       /\ \A w \in Workers : \A i \in ChunkIdx :
              Takes(w, i) => /\ disp'.sent = Append(disp.sent, i)
                             /\ HasWork(state.chunks[i])
       /\ (disp'.sent # disp.sent /\ disp'.sent # <<>>) =>
              \E w \in Workers : Takes(w, disp'.sent[Len(disp'.sent)])]_vars

\* second run: chunk 0 was complete and is skipped, chunks 1 and 2 are sent
\* in this order, and chunk 2 is complete before chunk 1
C30_Witness ==
    /\ runs = 2
    /\ pc = "run"
    /\ disp.sent = <<1, 2>>
    /\ state.chunks[0].completed
    /\ state.chunks[2].completed
    /\ ~state.chunks[1].completed


(***************************************************************************)
(* C31: a worker that was given a chunk to download is ready for its next  *)
(* work item, or at the hand-off to the hook pool, only when the chunk is  *)
(* marked complete in the state and in the saved state file; every index   *)
(* in the hook queue is marked and saved; a worker whose Save failed       *)
(* reports and exits, and a worker that has exited takes nothing more.     *)
(***************************************************************************)
MarkedAndSaved(i) == state.chunks[i].completed /\ Recorded(i)

SavedNext(i) == stateFile' # Nil /\ stateFile'.chunks[i].completed

MarkedAndSavedNext(i) == state'.chunks[i].completed /\ SavedNext(i)

Downloading(w) == wk[w].work.needsDownload /\ wk[w].pc \in {"attempt", "backoff", "fetching", "mark", "save"}

C31_MarkAndSaveBeforeNextItem ==
    [][InRun =>
         \A w \in Workers :
             LET i == wk[w].work.index
             IN  /\ (Downloading(w) /\ wk'[w].pc \in {"idle", "hooksend"})
                        => MarkedAndSavedNext(i)
                 /\ Len(postPartCh') > Len(postPartCh) =>
                        MarkedAndSavedNext(postPartCh'[Len(postPartCh')])
                 /\ (wk[w].pc = "save" /\ wk'[w].pc # "save" /\ ~SavedNext(i))
                        => wk'[w].pc = "report"
                 /\ wk[w].pc \in {"report", "exited"} => wk'[w].pc \in {"report", "exited"}]_vars

\* a worker that downloaded and saved chunk 0 has taken chunk 2 as its next item
C31_Witness ==
    \E w \in Workers :
        /\ pc = "run"
        /\ wk[w].pc = "attempt"
        /\ wk[w].work.index = 2
        /\ Cardinality({v \in Workers : wk[v].pc # "none"}) = 2
        /\ MarkedAndSaved(0)
        /\ ~state.chunks[1].completed


(***************************************************************************)
(* C32 (as stated): once the context is cancelled, a chunk being fetched   *)
(* or waiting in the retry backoff ends with downloadChunk returning the   *)
(* cancellation error.                                                     *)
(***************************************************************************)
CancelledInFlight(w) ==
    /\ InRun
    /\ ctxDone
    /\ wk[w].pc \in {"fetching", "backoff"}
    /\ wk'[w] # wk[w]

ReturnsCancellation(w) == wk'[w].pc = "report" /\ wk'[w].err = ContextCanceled

CompletesChunk(w) ==
    /\ wk'[w].pc = "mark"
    /\ part'[wk[w].work.index] = ChunkOf(w).end - ChunkOf(w).start + 1

\* the transfer delivered the last byte and Finalize failed
CompletesTransferOnly(w) ==
    /\ wk'[w].pc = "report"
    /\ wk'[w].err = FinalizeError
    /\ tmp'[wk[w].work.index] = ChunkOf(w).end - ChunkOf(w).start + 1

WaitTable == <<2, 4, 8, 16, 32>>

ExpectedWait(n) == IF n = 0 THEN 0 ELSE IF n <= Len(WaitTable) THEN WaitTable[n] ELSE 60

InAttemptLoop(rec) == rec.pc \in {"attempt", "backoff", "fetching"}

C33_BackoffSchedule ==
    [][\A w \in Workers :
          InAttemptLoop(wk'[w]) =>
              /\ wk'[w].wait = ExpectedWait(wk'[w].attempt)
              /\ wk'[w].wait <= 60
              /\ wk'[w].attempt <= cfg.maxRetries
              /\ InAttemptLoop(wk[w]) => wk'[w].wait >= wk[w].wait
              /\ wk[w].pc = "attempt" => wk'[w].pc # "backoff"]_vars

\* the seventh retry is about to be made after a capped wait
C33_Witness ==
    /\ pc = "chunk"
    /\ wk[1].pc = "backoff"
    /\ wk[1].attempt = 7
    /\ wk[1].wait = 60


(***************************************************************************)
(* C34: the chunk files of a group, named by GetChunkFilename, are merged  *)
(* in ascending order of their chunk indexes, for every plan the           *)
(* downloader can work on.                                                 *)
(***************************************************************************)
\* the chunk index that GetChunkFilename turned into this name
IndexOf(name) ==
    CHOOSE n \in 0..MaxMergeTotal : GetChunkFilename(extractBasename(name), n) = name

MergingGroup ==
    /\ pc = "merger"
    /\ mg.pc = "copy"
    /\ mg.outputName \in DOMAIN mg.groups
    /\ mg.outputName \in {FirstPrefix, SecondPrefix}

C34_MergeOrderIsIndexOrder ==
    MergingGroup =>
        \A j, k \in 1..Len(mg.files) :
            j < k => IndexOf(mg.files[j]) < IndexOf(mg.files[k])


(***************************************************************************)
(* C35: with Delete set, a source file leaves the directory only in the    *)
(* step that appended it to the temporary file, and every appended source  *)
(* is gone after that step unless its removal failed with a warning; the   *)
(* state file of a basename leaves the directory only in the step that     *)
(* renamed the output of that basename into place.  Without Delete neither *)
(* is removed.                                                             *)
(***************************************************************************)
Appends(path) ==
    /\ mg.pc = "copy"
    /\ mg.next <= Len(mg.files)
    /\ mg.files[mg.next] = path
    /\ mg'.next = mg.next + 1
    /\ mg'.pc = "copy"

RenamesIntoPlace(basename) ==
    /\ mg.pc = "copy"
    /\ mg.outputName = basename
    /\ basename \notin mg.merged
    /\ basename \in mg'.merged
    /\ basename \in DOMAIN dir'
    /\ (basename \o AssemblingSuffix) \notin DOMAIN dir'

Leaves(path) == path \in DOMAIN dir /\ path \notin DOMAIN dir'

C35_DeleteAfterAppend ==
    [][pc = "merger" =>
          /\ \A path \in PartFiles(dir) :
                 /\ Leaves(path) => mg.config.delete /\ Appends(path)
                 /\ (mg.config.delete /\ Appends(path)) =>
                        Leaves(path) \/ path \in mg'.warned
          /\ \A basename \in {FirstPrefix, SecondPrefix, OtherOutput} :
                 /\ Leaves(StatePath(basename)) =>
                        mg.config.delete /\ RenamesIntoPlace(basename)
                 /\ (mg.config.delete /\ RenamesIntoPlace(basename)) =>
                        \/ StatePath(basename) \notin DOMAIN dir'
                        \/ StatePath(basename) \in mg'.warned]_vars

\* --delete: the first chunk file has been appended and removed, the second
\* is still to be copied and the state file is still there
C35_Witness ==
    /\ pc = "merger"
    /\ mg.pc = "copy"
    /\ mg.config.delete
    /\ mg.outputName = FirstPrefix
    /\ mg.next = 2
    /\ Len(mg.files) >= 2
    /\ mg.files[1] \notin DOMAIN dir
    /\ mg.files[2] \in DOMAIN dir
    /\ StatePath(FirstPrefix) \in DOMAIN dir

(***************************************************************************)
(* C36: a chunk is marked complete only with its .part file on disk.       *)
(***************************************************************************)
\* the step sets Completed of chunk i in the State of the running process
NewlyMarked(i) ==
    /\ state # Nil /\ state' # Nil
    /\ ~state.chunks[i].completed
    /\ state'.chunks[i].completed

\* the step writes a state file that records chunk i complete, which the
\* file it replaces did not
NewlySaved(i) ==
    /\ stateFile' # Nil
    /\ stateFile'.chunks[i].completed
    /\ ~Recorded(i)
    /\ pc \in {"run", "joined"}

\* the .part file of chunk i was put in place by Finalize in this call of
\* downloadChunk, or OpenChunkFile found it
PromotedOrFound(w, i) ==
    /\ wk[w].pc = "mark"
    /\ wk[w].work.index = i
    /\ part[i] # Absent
    /\ tmp[i] = Absent

\* C36: in every step of a run, a chunk that becomes marked complete is the
\* chunk of a worker whose downloadChunk returned nil after the .tmp file
\* was renamed to the .part file or the .part file was found; its .part file
\* is on disk before and after the step; a state file that newly records a
\* chunk complete is written with that chunk's .part file on disk; and a
\* kill of the process leaves every .part and .tmp file as it is
C36_MarkedOnlyWhenPromoted ==
    [][\A i \in ChunkIdx :
          /\ NewlyMarked(i) =>
                 /\ \E w \in Workers : PromotedOrFound(w, i)
                 /\ part'[i] = part[i]
          /\ NewlySaved(i) => part[i] # Absent /\ part'[i] = part[i]
          /\ pc' = "killed" => part'[i] = part[i] /\ tmp'[i] = tmp[i]]_vars

\* the process was killed after the promotion of a chunk and before the Save
\* that follows the mark: the .part file is there, the state file does not
\* record the chunk
C36_Witness ==
    /\ pc = "killed"
    /\ \E i \in ChunkIdx :
           /\ part[i] # Absent
           /\ part[i] = ChunkSize
           /\ ~Recorded(i)
           /\ \E j \in ChunkIdx : j # i /\ Recorded(j)

(***************************************************************************)
(* C37, C38: what a complete chunk file holds.                             *)
(***************************************************************************)
PartOf(i) == GetChunkFilename(state.filenamePrefix, i)

\* the chunks the State of the running process has marked complete
MarkedChunks == {i \in DOMAIN state.chunks : state.chunks[i].completed}

\* C37: during a run, the .part file of every chunk that is marked complete
\* has exactly end-start+1 bytes, whatever runs came before in the directory
C37_CompleteArtifactHasChunkLength ==
    pc = "resume" =>
        \A i \in MarkedChunks :
            SizeOf(dir, PartOf(i)) = state.chunks[i].end - state.chunks[i].start + 1

\* every plan of the directory so far had the same chunk size
OneChunkSize == Cardinality(lastCall.chunkSizes) = 1

\* C38: during a run, the .part file of every chunk that is marked complete
\* holds the bytes start..end of the resource in order, whether the server
\* answered 206 or 200 and whether the chunk was fetched at once or resumed
\* (stated for directories in which every run used the same chunk size)
C38_CompleteArtifactHoldsItsRange ==
    (pc = "resume" /\ OneChunkSize) =>
        \A i \in MarkedChunks :
            /\ PartOf(i) \in DOMAIN dir
            /\ dir[PartOf(i)] = RangeBytes(state.chunks[i].start, state.chunks[i].end, 0)

\* with one chunk size every complete chunk file has the length of its chunk
HasChunkLengthWithOneChunkSize ==
    (pc = "resume" /\ OneChunkSize) =>
        \A i \in MarkedChunks :
            SizeOf(dir, PartOf(i)) = state.chunks[i].end - state.chunks[i].start + 1

\* with one chunk size and a server that honours the Range header, every
\* complete chunk file holds its range
HoldsItsRangeWhenHonoured ==
    (pc = "resume" /\ OneChunkSize /\ lastCall.statuses \subseteq {206}) =>
        \A i \in MarkedChunks :
            /\ PartOf(i) \in DOMAIN dir
            /\ dir[PartOf(i)] = RangeBytes(state.chunks[i].start, state.chunks[i].end, 0)

(***************************************************************************)
(* C39: downloadAllChunks terminates.                                      *)
(***************************************************************************)
\* downloadAllChunks has returned
AllChunksReturned == pc \in {"returned", "exited"}

\* the dispatcher has returned, or the context is cancelled, so that its
\* select takes the ctx.Done() case instead of waiting for a receiver
DispatcherUnblocked == disp.closed \/ ctxDone

HookedEarlier(i) == i \in lastCall.hooked

\* C40: no step of a run started without --force sends to postPartCh the
\* index of a chunk whose post-part command succeeded in the earlier run
C40_HookedChunkNotSubmittedAgain ==
    [][\A i \in ChunkIdx : (~cfg.force /\ HookedEarlier(i)) => ~Submits(i)]_vars

\* the same, for runs that follow a run stopped before it had completed
\* every chunk, and so find its state file
HookedChunkSkippedWithStateFile ==
    [][\A i \in ChunkIdx :
          (~cfg.force /\ HookedEarlier(i) /\ ~lastCall.finished) => ~Submits(i)]_vars

=============================================================================
